---- MODULE Spec2Model ----
(***************************************************************************)
(* The auth store of banana-slides (frontend/src/store/useAuthStore.ts,    *)
(* a zustand store) and the remote authority it talks to.                  *)
(*                                                                         *)
(* The store is single-threaded: every handler runs to its next await in   *)
(* one event-loop turn.  An action of this module is one such turn: the    *)
(* call of a store operation up to its first network request, or the       *)
(* arrival of a response together with the continuation that runs on it.   *)
(***************************************************************************)
EXTENDS Integers, FiniteSets, Sequences, TLC

\* Number of store operations that may be in flight at the same time.
NProcs == 2

Procs == 1..NProcs
\* Accounts the remote authority may know.
Accounts == {"alice", "bob"}
\* An access token is told apart by its account and by the exchange that
\* issued it: a credential exchange (login, register, OAuth) or a refresh.
Issuers == {"credentials", "refresh"}
\* What userApi.getSettings, updateSettings and resetSetting resolve with: the
\* user's stored overrides and the configuration the server resolved from them.
SettingsResponse(v) ==
    [settings |-> [overrides |-> v], effective_config |-> [resolved |-> v]]
\* The response the remote authority gives while the overrides are left alone.
SettingsRecords == {SettingsResponse("cfg")}
\* The responses it may give while the overrides are being changed.
SettingsResponses == {SettingsResponse("r1"), SettingsResponse("r2")}
\* The partial overrides updateSettings may be called with (UpdateSettingsRequest
\* with the absent fields left out).
SettingsUpdates ==
    {[image_caption_model |-> "m1"],
     [google_api_key |-> "k1"]}
\* The keys resetSetting may be called with.
SettingKeys == {"google_api_key", "image_caption_model"}

\* An optional value is a sequence of length 0 (null) or 1.
Null == << >>
Some(x) == <<x>>

VARIABLES
    store,              \* the zustand state: user, accessToken, ...
    calls,              \* per slot: the store operation in flight and its locals
    accounts,           \* the accounts the remote authority knows
    ev,                 \* the operation that ended in the turn that led to this state
    overlap,            \* has a store operation been started while another was in flight?
    page,               \* the route and the local state of the mounted components
    server              \* the settings the remote authority holds, and its answers

vars == <<store, calls, accounts, ev, overlap, page, server>>

----------------------------------------------------------------------------
\* zustand's set(partial): a shallow merge of the partial state into the state.
set(state, partial) ==
    [k \in DOMAIN state |-> IF k \in DOMAIN partial THEN partial[k] ELSE state[k]]

\* The initial state of the store.
InitialState ==
    [user |-> Null, accessToken |-> Null, refreshToken |-> Null,
     isAuthenticated |-> FALSE, isLoading |-> FALSE, error |-> Null,
     settings |-> Null, effectiveConfig |-> Null]

\* The partial state logout writes.
LoggedOut ==
    [user |-> Null, accessToken |-> Null, refreshToken |-> Null,
     isAuthenticated |-> FALSE, settings |-> Null, effectiveConfig |-> Null]

\* A slip: the failed refresh forgets the authentication flag.
RefreshFailed_keepsFlag ==
    [user |-> Null, accessToken |-> Null, refreshToken |-> Null,
     settings |-> Null, effectiveConfig |-> Null]

\* A slip: the failed refresh forgets the cached configuration.
RefreshFailed_keepsConfig ==
    [user |-> Null, accessToken |-> Null, refreshToken |-> Null,
     isAuthenticated |-> FALSE]

\* The partial state a failed refresh writes.
RefreshFailed ==
    [user |-> Null, accessToken |-> Null, refreshToken |-> Null,
     isAuthenticated |-> FALSE, settings |-> Null, effectiveConfig |-> Null]

\* The partial state a successful login or register writes.
SessionOf(response) ==
    [user |-> Some(response.user), accessToken |-> Some(response.access_token),
     refreshToken |-> Some(response.refresh_token),
     isAuthenticated |-> TRUE, isLoading |-> FALSE]

\* error.response?.data?.error || fallback
MessageOf(serverError, fallback) ==
    IF serverError # Null THEN serverError[1] ELSE fallback

\* What the remote authority answers to accepted credentials of account a.
AuthResponse(a) ==
    [user |-> a, access_token |-> [acct |-> a, by |-> "credentials"],
     refresh_token |-> a]

\* The answers the remote authority may give as the error field of a rejection.
ServerErrors == {Null, Some("rejected by server")}

----------------------------------------------------------------------------
\* A slot with no operation in flight.  first, refresh and retry record how the
\* requests of the operation ended; nGet, nRefresh and nClear count the
\* getCurrentUser requests, refresh requests and session clears it made;
\* peerOutcomes holds the outcomes of the refresh exchanges of other operations
\* that ended while this operation's own refresh exchange was pending and, once
\* its own exchange has ended, those of them that differ from its own outcome.
Idle ==
    [op |-> "none", pc |-> "idle", arg |-> Null, bearer |-> Null,
     sentRefresh |-> Null, first |-> "none", refresh |-> "none", retry |-> "none",
     nGet |-> 0, nRefresh |-> 0, nClear |-> 0, peerOutcomes |-> {},
     result |-> "none"]

\* The floating fetchSettings() an operation leaves behind in its slot.
Floating == [Idle EXCEPT !.op = "fetchSettings", !.pc = "settings_wait"]

\* No operation ended in the turn that led to this state.
NoEvent == [step |-> "none", call |-> Idle]

\* No component is mounted: the store is driven through its operations alone.
NoPage == [route |-> "none"]

\* The remote authority answers as it likes: its settings are left open.
AnyServer == [overrides |-> "any"]

Busy(p) == calls[p].pc # "idle"

\* The slots holding an operation on the session (anything but fetchSettings,
\* updateSettings and resetSetting).
SessionOps ==
    {p \in Procs :
        calls[p].pc \notin {"idle", "settings_wait", "update_wait", "reset_wait"}}

\* One event-loop turn of slot p: c is the record of its operation after the
\* turn, done tells whether the operation ended in it (ev then holds its final
\* record), left is what the slot holds afterwards, cs is the record of the
\* other slots as the turn leaves them.
Turn(p, step, done, c, left, cs) ==
    /\ calls' = [cs EXCEPT ![p] = left]
    /\ ev' = IF done
             THEN [step |-> step,
                   call |-> [c EXCEPT !.pc = "done", !.arg = Null, !.bearer = Null,
                                      !.sentRefresh = Null]]
             ELSE NoEvent

\* The operation of slot p stays in flight.
Continue(p, step, c) == Turn(p, step, FALSE, c, c, calls)
\* The operation of slot p ends.
Return(p, step, c) == Turn(p, step, TRUE, c, Idle, calls)
\* The operation of slot p ends and leaves a floating fetchSettings() behind.
ReturnFetching(p, step, c) == Turn(p, step, TRUE, c, Floating, calls)

\* A store operation is called; it takes the first free slot.
Called(p) ==
    /\ ~Busy(p)
    /\ \A q \in Procs : q < p => Busy(q)
    /\ overlap' = (overlap \/ SessionOps # {})
    /\ UNCHANGED accounts

\* A response arrives for the operation of slot p, which waits at pc.
Arrived(p, pc) ==
    /\ calls[p].pc = pc
    /\ UNCHANGED <<accounts, overlap>>

Init ==
    /\ store = InitialState
    /\ calls = [p \in Procs |-> Idle]
    /\ accounts = {"alice"}
    /\ ev = NoEvent
    /\ overlap = FALSE
    /\ page = NoPage
    /\ server = AnyServer

----------------------------------------------------------------------------
\* login(email, password): up to the await of authApi.login.
login(p, a) ==
    /\ Called(p)
    /\ store' = set(store, [isLoading |-> TRUE, error |-> Null])
    /\ Continue(p, "login", [Idle EXCEPT !.op = "login", !.pc = "login_wait",
                                         !.arg = Some(a)])

\* A slip: the session is stored but no fetchSettings() is started.
login_resolved_forgetting(p) ==
    /\ Arrived(p, "login_wait")
    /\ store' = set(store, SessionOf(AuthResponse(calls[p].arg[1])))
    /\ Return(p, "login_resolved", [calls[p] EXCEPT !.result = "resolved"])

\* authApi.login resolved: the session is stored and fetchSettings() is started.
login_resolved(p) ==
    /\ Arrived(p, "login_wait")
    /\ store' = set(store, SessionOf(AuthResponse(calls[p].arg[1])))
    /\ ReturnFetching(p, "login_resolved", [calls[p] EXCEPT !.result = "resolved"])

\* A slip: a rejected login ends the session that was there.
login_rejected_clearing(p, e) ==
    /\ Arrived(p, "login_wait")
    /\ store' = set(set(store, LoggedOut),
                    [error |-> Some(MessageOf(e, "Login failed")),
                     isLoading |-> FALSE])
    /\ Return(p, "login_rejected", [calls[p] EXCEPT !.result = "rejected"])

\* authApi.login rejected.
login_rejected(p, e) ==
    /\ Arrived(p, "login_wait")
    /\ store' = set(store, [error |-> Some(MessageOf(e, "Login failed")),
                            isLoading |-> FALSE])
    /\ Return(p, "login_rejected", [calls[p] EXCEPT !.result = "rejected"])

\* register(username, email, password): up to the await of authApi.register.
register(p, a) ==
    /\ Called(p)
    /\ store' = set(store, [isLoading |-> TRUE, error |-> Null])
    /\ Continue(p, "register", [Idle EXCEPT !.op = "register", !.pc = "register_wait",
                                            !.arg = Some(a)])

\* authApi.register resolved: as for login.
register_resolved(p) ==
    /\ Arrived(p, "register_wait")
    /\ store' = set(store, SessionOf(AuthResponse(calls[p].arg[1])))
    /\ ReturnFetching(p, "register_resolved", [calls[p] EXCEPT !.result = "resolved"])

\* authApi.register rejected.
register_rejected(p, e) ==
    /\ Arrived(p, "register_wait")
    /\ store' = set(store, [error |-> Some(MessageOf(e, "Registration failed")),
                            isLoading |-> FALSE])
    /\ Return(p, "register_rejected", [calls[p] EXCEPT !.result = "rejected"])

\* logout(): up to the await of authApi.logout.
logout(p) ==
    /\ Called(p)
    /\ Continue(p, "logout", [Idle EXCEPT !.op = "logout", !.pc = "logout_wait"])
    /\ UNCHANGED store

\* A slip: a rejected authApi.logout is rethrown before the session is cleared.
logout_settled_rethrowing(p, outcome) ==
    /\ Arrived(p, "logout_wait")
    /\ IF outcome = "error"
       THEN /\ Return(p, "logout_settled",
                      [calls[p] EXCEPT !.first = outcome, !.result = "rejected"])
            /\ UNCHANGED store
       ELSE /\ store' = set(store, LoggedOut)
            /\ Return(p, "logout_settled",
                      [calls[p] EXCEPT !.first = outcome, !.nClear = @ + 1,
                                       !.result = "resolved"])

\* authApi.logout settled, resolved or rejected: the session is cleared.
logout_settled(p, outcome) ==
    /\ Arrived(p, "logout_wait")
    /\ store' = set(store, LoggedOut)
    /\ Return(p, "logout_settled",
              [calls[p] EXCEPT !.first = outcome, !.nClear = @ + 1,
                               !.result = "resolved"])

\* The end of fetchCurrentUser, on its own or inside setTokensFromOAuth, which
\* goes on to start fetchSettings() without awaiting it.
Finish(p, step, c) ==
    IF c.op = "setTokensFromOAuth"
    THEN ReturnFetching(p, step, [c EXCEPT !.result = "resolved"])
    ELSE Return(p, step, [c EXCEPT !.result = "resolved"])

\* Every slot's record once a refresh exchange of slot p ended with outcome o:
\* the slots whose own exchange is still pending have seen that outcome.
Observed(p, o) ==
    [q \in Procs |->
        IF q # p /\ calls[q].pc = "refresh_wait"
        THEN [calls[q] EXCEPT !.peerOutcomes = @ \cup {o}]
        ELSE calls[q]]

\* refreshAccessToken() with no refresh token: returns false at once.
\* Otherwise up to the await of authApi.refresh(refreshToken).
refreshAccessToken(p) ==
    /\ Called(p)
    /\ IF store.refreshToken = Null
       THEN Return(p, "refreshAccessToken",
                   [Idle EXCEPT !.op = "refreshAccessToken", !.refresh = "no_token",
                                !.result = "false"])
       ELSE Continue(p, "refreshAccessToken",
                     [Idle EXCEPT !.op = "refreshAccessToken", !.pc = "refresh_wait",
                                  !.sentRefresh = store.refreshToken, !.nRefresh = 1])
    /\ UNCHANGED store

\* A slip: the refresh response is stored as if it carried a refresh token too.
refresh_resolved_rotating(p) ==
    /\ Arrived(p, "refresh_wait")
    /\ store' = set(store, [accessToken |->
                   Some([acct |-> calls[p].sentRefresh[1], by |-> "refresh"]),
                            refreshToken |-> Null])
    /\ LET c == [calls[p] EXCEPT !.refresh = "ok", !.peerOutcomes = @ \ {"ok"}]
       IN IF c.op = "refreshAccessToken"
          THEN Turn(p, "refresh_resolved", TRUE, [c EXCEPT !.result = "true"], Idle,
                    Observed(p, "ok"))
          ELSE LET retrying == [c EXCEPT !.pc = "retry_wait", !.nGet = @ + 1,
                                         !.sentRefresh = Null,
                                         !.bearer = store'.accessToken]
               IN Turn(p, "refresh_resolved", FALSE, retrying, retrying,
                       Observed(p, "ok"))

\* authApi.refresh resolved with a new access token of the refresh token's
\* account.  Inside fetchCurrentUser the call is retried in the same turn.
refresh_resolved(p) ==
    /\ Arrived(p, "refresh_wait")
    /\ store' = set(store, [accessToken |->
                   Some([acct |-> calls[p].sentRefresh[1], by |-> "refresh"])])
    /\ LET c == [calls[p] EXCEPT !.refresh = "ok", !.peerOutcomes = @ \ {"ok"}]
       IN IF c.op = "refreshAccessToken"
          THEN Turn(p, "refresh_resolved", TRUE, [c EXCEPT !.result = "true"], Idle,
                    Observed(p, "ok"))
          ELSE LET retrying == [c EXCEPT !.pc = "retry_wait", !.nGet = @ + 1,
                                         !.sentRefresh = Null,
                                         !.bearer = store'.accessToken]
               IN Turn(p, "refresh_resolved", FALSE, retrying, retrying,
                       Observed(p, "ok"))

\* authApi.refresh rejected: the session is cleared and false is returned.
\* Inside fetchCurrentUser the caller then sets isLoading to false and ends.
refresh_rejected(p) ==
    /\ Arrived(p, "refresh_wait")
    /\ LET c == [calls[p] EXCEPT !.refresh = "failed", !.nClear = @ + 1,
                                 !.peerOutcomes = @ \ {"failed"}]
           cleared == set(store, RefreshFailed)
       IN IF c.op = "refreshAccessToken"
          THEN /\ store' = cleared
               /\ Turn(p, "refresh_rejected", TRUE, [c EXCEPT !.result = "false"],
                       Idle, Observed(p, "failed"))
          ELSE /\ store' = set(cleared, [isLoading |-> FALSE])
               /\ Turn(p, "refresh_rejected", TRUE, [c EXCEPT !.result = "resolved"],
                       IF c.op = "setTokensFromOAuth" THEN Floating ELSE Idle,
                       Observed(p, "failed"))

\* fetchCurrentUser() with no access token: returns at once.
\* Otherwise up to the await of authApi.getCurrentUser().
fetchCurrentUser(p) ==
    /\ Called(p)
    /\ IF store.accessToken = Null
       THEN /\ Return(p, "fetchCurrentUser",
                      [Idle EXCEPT !.op = "fetchCurrentUser", !.result = "resolved"])
            /\ UNCHANGED store
       ELSE /\ store' = set(store, [isLoading |-> TRUE])
            /\ Continue(p, "fetchCurrentUser",
                        [Idle EXCEPT !.op = "fetchCurrentUser", !.pc = "get_wait",
                                     !.bearer = store.accessToken, !.nGet = 1])

\* authApi.getCurrentUser resolved (the first call or the retry) with the
\* profile of the account the request's bearer token belongs to.
getCurrentUser_resolved(p) ==
    /\ Arrived(p, calls[p].pc)
    /\ calls[p].pc \in {"get_wait", "retry_wait"}
    /\ store' = set(store, [user |-> Some(calls[p].bearer[1].acct),
                            isAuthenticated |-> TRUE, isLoading |-> FALSE])
    /\ Finish(p, "getCurrentUser_resolved",
              IF calls[p].pc = "get_wait" THEN [calls[p] EXCEPT !.first = "ok"]
              ELSE [calls[p] EXCEPT !.retry = "ok"])

\* The first authApi.getCurrentUser rejected with status 401: refreshAccessToken()
\* is called; with no refresh token it returns false and the operation ends.
getCurrentUser_unauthorized(p) ==
    /\ Arrived(p, "get_wait")
    /\ IF store.refreshToken = Null
       THEN /\ store' = set(store, [isLoading |-> FALSE])
            /\ Finish(p, "getCurrentUser_unauthorized",
                      [calls[p] EXCEPT !.first = "401", !.refresh = "no_token"])
       ELSE /\ Continue(p, "getCurrentUser_unauthorized",
                        [calls[p] EXCEPT !.first = "401", !.pc = "refresh_wait",
                                         !.bearer = Null,
                                         !.sentRefresh = store.refreshToken,
                                         !.nRefresh = @ + 1])
            /\ UNCHANGED store

\* A slip: the catch branch for other errors leaves isLoading as it is.
getCurrentUser_failed_loading(p) ==
    /\ Arrived(p, "get_wait")
    /\ UNCHANGED store
    /\ Finish(p, "getCurrentUser_failed", [calls[p] EXCEPT !.first = "error"])

\* The first authApi.getCurrentUser rejected with another error.
getCurrentUser_failed(p) ==
    /\ Arrived(p, "get_wait")
    /\ store' = set(store, [isLoading |-> FALSE])
    /\ Finish(p, "getCurrentUser_failed", [calls[p] EXCEPT !.first = "error"])

\* A slip: an unauthorized retry goes back to the refresh exchange.
retry_rejected_again(p, status) ==
    /\ Arrived(p, "retry_wait")
    /\ IF status = "401" /\ store.refreshToken # Null
       THEN /\ Continue(p, "retry_rejected",
                        [calls[p] EXCEPT !.retry = status, !.pc = "refresh_wait",
                                         !.bearer = Null,
                                         !.sentRefresh = store.refreshToken,
                                         !.nRefresh = @ + 1])
            /\ UNCHANGED store
       ELSE /\ store' = set(store, [isLoading |-> FALSE])
            /\ Finish(p, "retry_rejected", [calls[p] EXCEPT !.retry = status])

\* The retried authApi.getCurrentUser rejected, with status 401 or otherwise.
retry_rejected(p, status) ==
    /\ Arrived(p, "retry_wait")
    /\ store' = set(store, [isLoading |-> FALSE])
    /\ Finish(p, "retry_rejected", [calls[p] EXCEPT !.retry = status])

\* setTokensFromOAuth(accessToken, refreshToken): the tokens are stored and
\* fetchCurrentUser() runs up to the await of authApi.getCurrentUser().
setTokensFromOAuth(p, a) ==
    /\ Called(p)
    /\ LET tokens == AuthResponse(a)
           stored == set(store, [accessToken |-> Some(tokens.access_token),
                                 refreshToken |-> Some(tokens.refresh_token),
                                 isAuthenticated |-> TRUE])
       IN /\ store' = set(stored, [isLoading |-> TRUE])
          /\ Continue(p, "setTokensFromOAuth",
                      [Idle EXCEPT !.op = "setTokensFromOAuth", !.pc = "get_wait",
                                   !.bearer = stored.accessToken, !.nGet = 1])

\* The partial state a resolved settings request writes.
SettingsOf(response) ==
    [settings |-> Some(response.settings),
     effectiveConfig |-> Some(response.effective_config)]

\* fetchSettings(): up to the await of userApi.getSettings.
fetchSettings(p) ==
    /\ Called(p)
    /\ Continue(p, "fetchSettings", Floating)
    /\ UNCHANGED store

\* userApi.getSettings resolved: settings and effectiveConfig are replaced.
fetchSettings_resolved(p, r) ==
    /\ Arrived(p, "settings_wait")
    /\ store' = set(store, SettingsOf(r))
    /\ Return(p, "fetchSettings_resolved", [calls[p] EXCEPT !.result = "resolved"])

\* userApi.getSettings rejected: the error is logged.
fetchSettings_rejected(p) ==
    /\ Arrived(p, "settings_wait")
    /\ Return(p, "fetchSettings_rejected", [calls[p] EXCEPT !.result = "resolved"])
    /\ UNCHANGED store

\* updateSettings(data): up to the await of userApi.updateSettings(data).
updateSettings(p, data) ==
    /\ Called(p)
    /\ Continue(p, "updateSettings",
                [Idle EXCEPT !.op = "updateSettings", !.pc = "update_wait",
                             !.arg = Some(data)])
    /\ UNCHANGED store

\* A slip: the response's settings are stored without its effective_config.
updateSettings_resolved_merging(p, r) ==
    /\ Arrived(p, "update_wait")
    /\ store' = set(store, [settings |-> Some(r.settings)])
    /\ Return(p, "updateSettings_resolved", [calls[p] EXCEPT !.result = "resolved"])

\* A slip: of the response's effective_config only the entries of the fields
\* that were sent are kept; the others are put back to "not set".
updateSettings_resolved_nulling(p, r) ==
    /\ Arrived(p, "update_wait")
    /\ store' = set(store,
          [settings |-> Some(r.settings),
           effectiveConfig |->
               Some([f \in DOMAIN r.effective_config |->
                       IF f \in DOMAIN calls[p].arg[1]
                       THEN r.effective_config[f]
                       ELSE [r.effective_config[f] EXCEPT !.source = "system"]])])
    /\ Return(p, "updateSettings_resolved", [calls[p] EXCEPT !.result = "resolved"])

\* A slip: the secrets that were sent are kept in the cached settings.
updateSettings_resolved_echoing(p, r) ==
    /\ Arrived(p, "update_wait")
    /\ store' = set(store,
          [settings |->
               Some([f \in DOMAIN calls[p].arg[1] \ DOMAIN r.settings |->
                        Some(calls[p].arg[1][f])] @@ r.settings),
           effectiveConfig |-> Some(r.effective_config)])
    /\ Return(p, "updateSettings_resolved", [calls[p] EXCEPT !.result = "resolved"])

\* userApi.updateSettings resolved: settings and effectiveConfig are replaced.
updateSettings_resolved(p, r) ==
    /\ Arrived(p, "update_wait")
    /\ store' = set(store, SettingsOf(r))
    /\ Return(p, "updateSettings_resolved", [calls[p] EXCEPT !.result = "resolved"])

\* userApi.updateSettings rejected: the message is stored and thrown.
updateSettings_rejected(p, e) ==
    /\ Arrived(p, "update_wait")
    /\ store' = set(store, [error |-> Some(MessageOf(e, "Failed to update settings"))])
    /\ Return(p, "updateSettings_rejected", [calls[p] EXCEPT !.result = "rejected"])

\* resetSetting(key): up to the await of userApi.resetSetting(key).
resetSetting(p, key) ==
    /\ Called(p)
    /\ Continue(p, "resetSetting",
                [Idle EXCEPT !.op = "resetSetting", !.pc = "reset_wait",
                             !.arg = Some(key)])
    /\ UNCHANGED store

\* A slip: the response's settings are stored, the effective configuration is
\* left as it was cached.
resetSetting_resolved_local(p, r) ==
    /\ Arrived(p, "reset_wait")
    /\ store' = set(store, [settings |-> Some(r.settings)])
    /\ Return(p, "resetSetting_resolved", [calls[p] EXCEPT !.result = "resolved"])

\* A slip: the response is dropped.
resetSetting_resolved_ignoring(p, r) ==
    /\ Arrived(p, "reset_wait")
    /\ Return(p, "resetSetting_resolved", [calls[p] EXCEPT !.result = "resolved"])
    /\ UNCHANGED store

\* userApi.resetSetting resolved: settings and effectiveConfig are replaced.
resetSetting_resolved(p, r) ==
    /\ Arrived(p, "reset_wait")
    /\ store' = set(store, SettingsOf(r))
    /\ Return(p, "resetSetting_resolved", [calls[p] EXCEPT !.result = "resolved"])

\* A slip: the failed reset drops the cached settings.
resetSetting_rejected_clearing(p, e) ==
    /\ Arrived(p, "reset_wait")
    /\ store' = set(store, [error |-> Some(MessageOf(e, "Failed to reset setting")),
                            settings |-> Null])
    /\ Return(p, "resetSetting_rejected", [calls[p] EXCEPT !.result = "rejected"])

\* userApi.resetSetting rejected: the message is stored and thrown.
resetSetting_rejected(p, e) ==
    /\ Arrived(p, "reset_wait")
    /\ store' = set(store, [error |-> Some(MessageOf(e, "Failed to reset setting"))])
    /\ Return(p, "resetSetting_rejected", [calls[p] EXCEPT !.result = "rejected"])

\* The store driven through its session operations, in any order.
Next ==
    \/ \E p \in Procs, a \in accounts : login(p, a) /\ UNCHANGED <<page, server>>
    \/ \E p \in Procs : login_resolved(p) /\ UNCHANGED <<page, server>>
    \/ \E p \in Procs, e \in ServerErrors : login_rejected(p, e) /\ UNCHANGED <<page, server>>
    \/ \E p \in Procs, a \in accounts : register(p, a) /\ UNCHANGED <<page, server>>
    \/ \E p \in Procs : register_resolved(p) /\ UNCHANGED <<page, server>>
    \/ \E p \in Procs, e \in ServerErrors : register_rejected(p, e) /\ UNCHANGED <<page, server>>
    \/ \E p \in Procs : logout(p) /\ UNCHANGED <<page, server>>
    \/ \E p \in Procs, outcome \in {"ok", "error"} : logout_settled(p, outcome) /\ UNCHANGED <<page, server>>
    \/ \E p \in Procs : refreshAccessToken(p) /\ UNCHANGED <<page, server>>
    \/ \E p \in Procs : refresh_resolved(p) /\ UNCHANGED <<page, server>>
    \/ \E p \in Procs : refresh_rejected(p) /\ UNCHANGED <<page, server>>
    \/ \E p \in Procs : fetchCurrentUser(p) /\ UNCHANGED <<page, server>>
    \/ \E p \in Procs : getCurrentUser_resolved(p) /\ UNCHANGED <<page, server>>
    \/ \E p \in Procs : getCurrentUser_unauthorized(p) /\ UNCHANGED <<page, server>>
    \/ \E p \in Procs : getCurrentUser_failed(p) /\ UNCHANGED <<page, server>>
    \/ \E p \in Procs, status \in {"401", "error"} : retry_rejected(p, status) /\ UNCHANGED <<page, server>>
    \/ \E p \in Procs, a \in accounts : setTokensFromOAuth(p, a) /\ UNCHANGED <<page, server>>
    \/ \E p \in Procs, r \in SettingsRecords : fetchSettings_resolved(p, r) /\ UNCHANGED <<page, server>>
    \/ \E p \in Procs : fetchSettings_rejected(p) /\ UNCHANGED <<page, server>>

Spec == Init /\ [][Next]_vars

\* The operations that set isLoading: login, register and fetchCurrentUser,
\* with every way their requests can end.
EntryNext ==
    \/ \E p \in Procs, a \in accounts : login(p, a) /\ UNCHANGED <<page, server>>
    \/ \E p \in Procs : login_resolved(p) /\ UNCHANGED <<page, server>>
    \/ \E p \in Procs, e \in ServerErrors : login_rejected(p, e) /\ UNCHANGED <<page, server>>
    \/ \E p \in Procs, a \in accounts : register(p, a) /\ UNCHANGED <<page, server>>
    \/ \E p \in Procs : register_resolved(p) /\ UNCHANGED <<page, server>>
    \/ \E p \in Procs, e \in ServerErrors : register_rejected(p, e) /\ UNCHANGED <<page, server>>
    \/ \E p \in Procs : fetchCurrentUser(p) /\ UNCHANGED <<page, server>>
    \/ \E p \in Procs : getCurrentUser_resolved(p) /\ UNCHANGED <<page, server>>
    \/ \E p \in Procs : getCurrentUser_unauthorized(p) /\ UNCHANGED <<page, server>>
    \/ \E p \in Procs : getCurrentUser_failed(p) /\ UNCHANGED <<page, server>>
    \/ \E p \in Procs : refresh_resolved(p) /\ UNCHANGED <<page, server>>
    \/ \E p \in Procs : refresh_rejected(p) /\ UNCHANGED <<page, server>>
    \/ \E p \in Procs, status \in {"401", "error"} : retry_rejected(p, status) /\ UNCHANGED <<page, server>>
    \/ \E p \in Procs, r \in SettingsRecords : fetchSettings_resolved(p, r) /\ UNCHANGED <<page, server>>
    \/ \E p \in Procs : fetchSettings_rejected(p) /\ UNCHANGED <<page, server>>

EntrySpec == Init /\ [][EntryNext]_vars

\* The store driven through its settings operations, with login, logout and
\* the refresh exchange around them.
SettingsNext ==
    \/ \E p \in Procs, a \in accounts : login(p, a) /\ UNCHANGED <<page, server>>
    \/ \E p \in Procs : login_resolved(p) /\ UNCHANGED <<page, server>>
    \/ \E p \in Procs : logout(p) /\ UNCHANGED <<page, server>>
    \/ \E p \in Procs, outcome \in {"ok", "error"} :
            logout_settled(p, outcome) /\ UNCHANGED <<page, server>>
    \/ \E p \in Procs : refreshAccessToken(p) /\ UNCHANGED <<page, server>>
    \/ \E p \in Procs : refresh_resolved(p) /\ UNCHANGED <<page, server>>
    \/ \E p \in Procs : refresh_rejected(p) /\ UNCHANGED <<page, server>>
    \/ \E p \in Procs : fetchSettings(p) /\ UNCHANGED <<page, server>>
    \/ \E p \in Procs, r \in SettingsResponses :
            fetchSettings_resolved(p, r) /\ UNCHANGED <<page, server>>
    \/ \E p \in Procs : fetchSettings_rejected(p) /\ UNCHANGED <<page, server>>
    \/ \E p \in Procs, data \in SettingsUpdates :
            updateSettings(p, data) /\ UNCHANGED <<page, server>>
    \/ \E p \in Procs, r \in SettingsResponses :
            updateSettings_resolved(p, r) /\ UNCHANGED <<page, server>>
    \/ \E p \in Procs, e \in ServerErrors :
            updateSettings_rejected(p, e) /\ UNCHANGED <<page, server>>
    \/ \E p \in Procs, key \in SettingKeys : resetSetting(p, key) /\ UNCHANGED <<page, server>>
    \/ \E p \in Procs, r \in SettingsResponses :
            resetSetting_resolved(p, r) /\ UNCHANGED <<page, server>>
    \/ \E p \in Procs, e \in ServerErrors :
            resetSetting_rejected(p, e) /\ UNCHANGED <<page, server>>

SettingsSpec == Init /\ [][SettingsNext]_vars

----------------------------------------------------------------------------
\* The configuration the remote authority keeps for the signed-in user, and how
\* it answers the three settings requests.

\* The override fields: two secrets and five plain fields.
Secrets == {"google_api_key", "mineru_token"}
PlainFields ==
    {"google_api_base", "mineru_api_base", "image_caption_model",
     "max_description_workers", "max_image_workers"}
Fields == Secrets \cup PlainFields

\* The values a secret may be given.
SecretValues == {"k1", "k2"}

\* No field is overridden.
NoOverrides == [f \in Fields |-> Null]

\* The UserSettings record for the overrides o: the plain fields as they are,
\* of a secret only whether it is set.
SettingsView(o) ==
    [google_api_base |-> o["google_api_base"],
     mineru_api_base |-> o["mineru_api_base"],
     image_caption_model |-> o["image_caption_model"],
     max_description_workers |-> o["max_description_workers"],
     max_image_workers |-> o["max_image_workers"],
     has_google_api_key |-> o["google_api_key"] # Null,
     has_mineru_token |-> o["mineru_token"] # Null]

\* The EffectiveConfig record for the overrides o: a field's source is "user"
\* where it is overridden and "system" where it is not.
Resolve(o) ==
    [f \in Fields |->
        LET source == IF o[f] # Null THEN "user" ELSE "system"
        IN IF f \in Secrets
           THEN [is_set |-> o[f] # Null, source |-> source]
           ELSE [value |-> IF o[f] # Null THEN o[f][1] ELSE "system default",
                 source |-> source]]

\* update settings: the fields of the request replace the overrides, the
\* absent fields are left as they are.
Updated(o, data) ==
    [f \in Fields |-> IF f \in DOMAIN data THEN Some(data[f]) ELSE o[f]]

\* reset one setting: the override of the field is removed.
Reset(o, key) == [o EXCEPT ![key] = Null]

\* The overrides after the request of the call c was carried out.
Carried(o, c) ==
    CASE c.op = "updateSettings" -> Updated(o, c.arg[1])
      [] c.op = "resetSetting" -> Reset(o, c.arg[1])
      [] OTHER -> o

\* The fields the request of the call c names.
Named(c) ==
    CASE c.op = "updateSettings" -> DOMAIN c.arg[1]
      [] c.op = "resetSetting" -> {c.arg[1]}
      [] OTHER -> {}

\* The other value of a secret, and the overrides o with every secret that is
\* set given its other value.
OtherSecret(k) == IF k = "k1" THEN "k2" ELSE "k1"
WithOtherSecrets(o) ==
    [f \in Fields |->
        IF f \in Secrets /\ o[f] # Null THEN Some(OtherSecret(o[f][1])) ELSE o[f]]

\* The answer to a settings request that left the overrides o: the override
\* record and the effective-config record (with, for the claims, the fields the
\* request named, the effective configuration from before it, and the answer
\* the same request gets in a run that differs in the values of the secrets).
Answer(o, named, before) ==
    [settings |-> SettingsView(o), effective_config |-> Resolve(o),
     named |-> named, before |-> before,
     other |-> [settings |-> SettingsView(WithOtherSecrets(o)),
                effective_config |-> Resolve(WithOtherSecrets(o))]]

\* The overrides the user may have when the page is opened.
StartOverrides ==
    {NoOverrides,
     [NoOverrides EXCEPT !["google_api_key"] = Some("k1"),
                         !["max_image_workers"] = Some("4")]}

\* The remote authority with the overrides o and no answer under way.
Serving(o) == [overrides |-> o, responses |-> [p \in Procs |-> Null]]

\* The remote authority carries out the settings request of slot p: the
\* overrides are changed as the request says (last write wins) and the answer
\* is on its way.
Serve(p) ==
    /\ calls[p].pc \in {"settings_wait", "update_wait", "reset_wait"}
    /\ server.responses[p] = Null
    /\ LET o == Carried(server.overrides, calls[p])
       IN server' = [overrides |-> o,
                     responses |-> [server.responses EXCEPT ![p] =
                         Some(Answer(o, Named(calls[p]), Resolve(server.overrides)))]]
    /\ UNCHANGED <<store, calls, accounts, ev, overlap, page>>

\* The answer to the request of slot p reaches the client.
Answered(p) ==
    /\ server.responses[p] # Null
    /\ server' = [server EXCEPT !.responses[p] = Null]

Delivered(p) == Answered(p) /\ UNCHANGED page

\* The request of slot p fails before the remote authority has carried it out.
Dropped(p) ==
    /\ server.responses[p] = Null
    /\ UNCHANGED server

Undelivered(p) == Dropped(p) /\ UNCHANGED page

\* A signed-in session of account a, as login leaves it.
SignedIn(a) == set(InitialState, SessionOf(AuthResponse(a)))

ConfigInit ==
    /\ store = SignedIn("alice")
    /\ calls = [p \in Procs |-> Idle]
    /\ accounts = {"alice"}
    /\ ev = NoEvent
    /\ overlap = FALSE
    /\ page = NoPage
    /\ \E o \in StartOverrides : server = Serving(o)

\* The settings operations of the store against the remote authority, which
\* carries out every update and reset it is sent.
ConfigNext ==
    \/ \E p \in Procs : fetchSettings(p) /\ UNCHANGED <<page, server>>
    \/ \E p \in Procs, data \in SettingsUpdates :
            updateSettings(p, data) /\ UNCHANGED <<page, server>>
    \/ \E p \in Procs, key \in SettingKeys :
            resetSetting(p, key) /\ UNCHANGED <<page, server>>
    \/ \E p \in Procs : Serve(p)
    \/ \E p \in Procs :
            Delivered(p) /\ fetchSettings_resolved(p, server.responses[p][1])
    \/ \E p \in Procs :
            Delivered(p) /\ updateSettings_resolved(p, server.responses[p][1])
    \/ \E p \in Procs :
            Delivered(p) /\ resetSetting_resolved(p, server.responses[p][1])
    \/ \E p \in Procs : Undelivered(p) /\ fetchSettings_rejected(p)

ConfigSpec == ConfigInit /\ [][ConfigNext]_vars

----------------------------------------------------------------------------
\* Process start.  The persist middleware keeps four fields of the store in
\* local storage and merges them into the initial state when the page loads.
\* A slip: the whole state is persisted.
partialize_all(state) == state

partialize(state) ==
    [accessToken |-> state.accessToken, refreshToken |-> state.refreshToken,
     user |-> state.user, isAuthenticated |-> state.isAuthenticated]

\* The store after the persisted fields were merged into the initial state.
Rehydrated(persisted) == set(InitialState, persisted)

\* The process is ended and started again: the store is created anew and what
\* local storage holds is merged into it; the requests under way are gone.
restart ==
    /\ store' = Rehydrated(partialize(store))
    /\ calls' = [p \in Procs |-> Idle]
    /\ ev' = [NoEvent EXCEPT !.step = "restart"]
    /\ overlap' = FALSE
    /\ UNCHANGED <<accounts, page, server>>

\* The session and settings operations, with restarts in between.
PersistNext ==
    \/ SettingsNext
    \/ restart

PersistSpec == Init /\ [][PersistNext]_vars

\* What local storage may hold for account a: the four fields as the session
\* operations can leave them (a session right after sign-in or after a refresh,
\* with the profile fetched or not, and what late responses make of a session
\* that was ended meanwhile).
PersistedOf(a) ==
    {[user |-> u, accessToken |-> Some([acct |-> a, by |-> i]),
      refreshToken |-> Some(a), isAuthenticated |-> TRUE] :
        u \in {Null, Some(a)}, i \in Issuers}
    \cup {[user |-> Some(a), accessToken |-> Null, refreshToken |-> Null,
           isAuthenticated |-> TRUE],
          [user |-> Some(a), accessToken |-> Some([acct |-> a, by |-> "refresh"]),
           refreshToken |-> Null, isAuthenticated |-> TRUE],
          [user |-> Null, accessToken |-> Some([acct |-> a, by |-> "refresh"]),
           refreshToken |-> Null, isAuthenticated |-> FALSE]}

PersistedSessions ==
    {partialize(InitialState)} \cup UNION {PersistedOf(a) : a \in Accounts}

\* The routes the process may be started on.
StartRoutes == {"/", "/settings"}

\* The App and, on its route, the Settings page right after the first render:
\* no effect has run yet.  loadedFor is the value of isAuthenticated the
\* effects of the Settings page last ran with.
Mounted(route) == [route |-> route, restored |-> FALSE, loadedFor |-> Null]

BootInit ==
    /\ \E persisted \in PersistedSessions : store = Rehydrated(persisted)
    /\ calls = [p \in Procs |-> Idle]
    /\ accounts = Accounts
    /\ ev = NoEvent
    /\ overlap = FALSE
    /\ \E route \in StartRoutes : page = Mounted(route)
    /\ server = AnyServer

\* What AuthGuard renders: its children, or a redirect to /login.
AuthGuard(requireAuth) ==
    IF requireAuth /\ ~store.isAuthenticated THEN "Navigate /login" ELSE "children"

\* The render guard of the Settings page: it returns null unless the session
\* is authenticated and the user is there.
Settings_renders == store.isAuthenticated /\ store.user # Null

\* The effects of the Settings page, which run after the first render and
\* whenever isAuthenticated has changed: navigate('/login') when the session
\* is not authenticated, fetchSettings() when it is.
Settings_effects(p) ==
    /\ page.route = "/settings"
    /\ page.loadedFor # Some(store.isAuthenticated)
    /\ IF store.isAuthenticated
       THEN /\ fetchSettings(p)
            /\ page' = [page EXCEPT !.loadedFor = Some(store.isAuthenticated)]
       ELSE /\ page' = [page EXCEPT !.route = "/login",
                                    !.loadedFor = Some(store.isAuthenticated)]
            /\ UNCHANGED <<store, calls, accounts, ev, overlap>>

\* The effect of App that restores the login state, which runs once after the
\* first render (after the effects of the page inside it): fetchCurrentUser()
\* when the persisted session says isAuthenticated.
App_restore(p) ==
    /\ ~page.restored
    /\ page.route = "/settings" => page.loadedFor # Null
    /\ page' = [page EXCEPT !.restored = TRUE]
    /\ IF store.isAuthenticated
       THEN fetchCurrentUser(p)
       ELSE /\ p = 1
            /\ UNCHANGED <<store, calls, accounts, ev, overlap>>

\* Process start on a persisted session: the effects run, then the responses
\* to their requests arrive.
BootNext ==
    \/ \E p \in Procs : Settings_effects(p) /\ UNCHANGED server
    \/ \E p \in Procs : App_restore(p) /\ UNCHANGED server
    \/ \E p \in Procs : page.restored /\ getCurrentUser_resolved(p) /\ UNCHANGED <<page, server>>
    \/ \E p \in Procs :
            page.restored /\ getCurrentUser_unauthorized(p) /\ UNCHANGED <<page, server>>
    \/ \E p \in Procs : page.restored /\ getCurrentUser_failed(p) /\ UNCHANGED <<page, server>>
    \/ \E p \in Procs : page.restored /\ refresh_resolved(p) /\ UNCHANGED <<page, server>>
    \/ \E p \in Procs : page.restored /\ refresh_rejected(p) /\ UNCHANGED <<page, server>>
    \/ \E p \in Procs, status \in {"401", "error"} :
            page.restored /\ retry_rejected(p, status) /\ UNCHANGED <<page, server>>
    \/ \E p \in Procs, r \in SettingsRecords :
            page.restored /\ fetchSettings_resolved(p, r) /\ UNCHANGED <<page, server>>
    \/ \E p \in Procs : page.restored /\ fetchSettings_rejected(p) /\ UNCHANGED <<page, server>>

BootSpec == BootInit /\ [][BootNext]_vars

\* The effects run once the page is rendered and every request is answered in
\* the end, by a response or by the client's timeout.
FairBootSpec == BootSpec /\ WF_vars(BootNext)

----------------------------------------------------------------------------
\* The OAuth callback route.  A query value is a sequence of characters.

\* Longest raw value of the error parameter.
MaxRawLen == 3

\* The characters a raw query value is made of, and the hex digits among them.
QueryChars == {"x", "+", "%", "2", "5"}
HexDigits == {"2", "5"}

RawValues == UNION {[1..n -> QueryChars] : n \in 0..MaxRawLen}

\* The character with the code 0xhl.
CharOf(h, l) ==
    CASE h = "2" /\ l = "2" -> "\""
      [] h = "2" /\ l = "5" -> "%"
      [] h = "5" /\ l = "2" -> "R"
      [] h = "5" /\ l = "5" -> "U"

\* Does str start with a percent sign and two hex digits?
Escaped(str) ==
    /\ Len(str) >= 3
    /\ str[1] = "%" /\ str[2] \in HexDigits /\ str[3] \in HexDigits

\* searchParams.get(name) on a parameter with the raw value raw: the value
\* form-decoded by URLSearchParams, which turns "+" into a space and decodes
\* every escape, leaving a percent sign that starts none as it is.
RECURSIVE FormDecode(_)
FormDecode(raw) ==
    IF raw = << >> THEN << >>
    ELSE IF Escaped(raw)
         THEN <<CharOf(raw[2], raw[3])>> \o FormDecode(SubSeq(raw, 4, Len(raw)))
         ELSE <<IF raw[1] = "+" THEN " " ELSE raw[1]>> \o FormDecode(Tail(raw))

\* Does str hold a percent sign that starts no escape?
RECURSIVE Malformed(_)
Malformed(str) ==
    IF str = << >> THEN FALSE
    ELSE IF str[1] = "%"
         THEN ~Escaped(str) \/ Malformed(SubSeq(str, 4, Len(str)))
         ELSE Malformed(Tail(str))

\* The escapes of a well-formed str decoded.
RECURSIVE Unescaped(_)
Unescaped(str) ==
    IF str = << >> THEN << >>
    ELSE IF Escaped(str)
         THEN <<CharOf(str[2], str[3])>> \o Unescaped(SubSeq(str, 4, Len(str)))
         ELSE <<str[1]>> \o Unescaped(Tail(str))

\* decodeURIComponent(str): the decoded string, or null where it throws a
\* URIError because str is malformed.
decodeURIComponent(str) ==
    IF Malformed(str) THEN Null ELSE Some(Unescaped(str))

\* The AuthCallback page right after its first render on a URL with the query
\* search: error is its state, handled tells whether its effect has run, threw
\* whether handleCallback ended by throwing.
Callback(search) ==
    [route |-> "/auth/callback", search |-> search, error |-> Null,
     handled |-> FALSE, threw |-> FALSE]

CallbackInit ==
    /\ store = InitialState
    /\ calls = [p \in Procs |-> Idle]
    /\ accounts = {"alice"}
    /\ ev = NoEvent
    /\ overlap = FALSE
    /\ server = AnyServer
    /\ \E a \in {"alice"}, withAccess \in BOOLEAN, withRefresh \in BOOLEAN,
          e \in {Null} \cup {Some(raw) : raw \in RawValues} :
            page = Callback([access_token |-> IF withAccess THEN Some(a) ELSE Null,
                             refresh_token |-> IF withRefresh THEN Some(a) ELSE Null,
                             error |-> e])

\* searchParams.get('error'): null when the parameter is absent.
ErrorParam ==
    IF page.search.error = Null THEN Null
    ELSE Some(FormDecode(page.search.error[1]))

\* A slip: the access token alone is enough to call setTokensFromOAuth.
handleCallback_accessOnly(p) ==
    /\ page.route = "/auth/callback"
    /\ ~page.handled
    /\ IF ErrorParam # Null /\ ErrorParam[1] # << >>
       THEN LET decoded == decodeURIComponent(ErrorParam[1])
            IN /\ page' = IF decoded = Null
                          THEN [page EXCEPT !.handled = TRUE, !.threw = TRUE]
                          ELSE [page EXCEPT !.handled = TRUE, !.error = decoded]
               /\ p = 1
               /\ UNCHANGED <<store, calls, accounts, ev, overlap>>
       ELSE IF page.search.access_token # Null
            THEN /\ setTokensFromOAuth(p, page.search.access_token[1])
                 /\ page' = [page EXCEPT !.handled = TRUE]
            ELSE /\ page' = [page EXCEPT !.handled = TRUE,
                                         !.error = Some("invalid callback parameters")]
                 /\ p = 1
                 /\ UNCHANGED <<store, calls, accounts, ev, overlap>>

\* AuthCallback's effect, handleCallback(): up to its first await or its end.
handleCallback(p) ==
    /\ page.route = "/auth/callback"
    /\ ~page.handled
    /\ IF ErrorParam # Null /\ ErrorParam[1] # << >>
       THEN LET decoded == decodeURIComponent(ErrorParam[1])
            IN /\ page' = IF decoded = Null
                          THEN [page EXCEPT !.handled = TRUE, !.threw = TRUE]
                          ELSE [page EXCEPT !.handled = TRUE, !.error = decoded]
               /\ p = 1
               /\ UNCHANGED <<store, calls, accounts, ev, overlap>>
       ELSE IF page.search.access_token # Null /\ page.search.refresh_token # Null
            THEN /\ setTokensFromOAuth(p, page.search.access_token[1])
                 /\ page' = [page EXCEPT !.handled = TRUE]
            ELSE /\ page' = [page EXCEPT !.handled = TRUE,
                                         !.error = Some("invalid callback parameters")]
                 /\ p = 1
                 /\ UNCHANGED <<store, calls, accounts, ev, overlap>>

\* The rest of handleCallback, which runs in the turn in which the
\* setTokensFromOAuth of slot p resolves: navigate('/').
Resumed(p) ==
    page' = IF calls[p].op = "setTokensFromOAuth" /\ calls'[p].op # "setTokensFromOAuth"
            THEN [page EXCEPT !.route = "/"]
            ELSE page

\* The OAuth callback route is opened; the responses to the requests of
\* setTokensFromOAuth arrive.
CallbackNext ==
    \/ \E p \in Procs : handleCallback(p) /\ UNCHANGED server
    \/ \E p \in Procs : getCurrentUser_resolved(p) /\ Resumed(p) /\ UNCHANGED server
    \/ \E p \in Procs : getCurrentUser_unauthorized(p) /\ Resumed(p) /\ UNCHANGED server
    \/ \E p \in Procs : getCurrentUser_failed(p) /\ Resumed(p) /\ UNCHANGED server
    \/ \E p \in Procs : refresh_resolved(p) /\ Resumed(p) /\ UNCHANGED server
    \/ \E p \in Procs : refresh_rejected(p) /\ Resumed(p) /\ UNCHANGED server
    \/ \E p \in Procs, status \in {"401", "error"} : retry_rejected(p, status) /\ Resumed(p) /\ UNCHANGED server
    \/ \E p \in Procs, r \in SettingsRecords :
            fetchSettings_resolved(p, r) /\ Resumed(p) /\ UNCHANGED server
    \/ \E p \in Procs : fetchSettings_rejected(p) /\ Resumed(p) /\ UNCHANGED server

CallbackSpec == CallbackInit /\ [][CallbackNext]_vars

----------------------------------------------------------------------------
\* Is field f overridden according to the UserSettings record s?
Overridden(s, f) ==
    CASE f = "google_api_key" -> s.has_google_api_key
      [] f = "mineru_token" -> s.has_mineru_token
      [] OTHER -> s[f] # Null

\* The Settings page of a signed-in user: its form state.  The inputs are
\* named after the fields they edit (googleApiKey is form.google_api_key, ...);
\* saving is the slot of the updateSettings call handleSave awaits.
SettingsPage ==
    [route |-> "/settings", loaded |-> FALSE,
     form |-> [f \in Fields |-> ""],
     isSaving |-> FALSE, message |-> Null, saving |-> Null]

\* What the user types into the inputs.
Typed ==
    [google_api_key |-> {"", "k2"}, mineru_token |-> {"", "k1"},
     image_caption_model |-> {"", "m1"}]

\* What the user types when a secret and a worker count are edited.
TypedCounts ==
    [google_api_key |-> {"", "k2"}, max_image_workers |-> {"", "0", "4"}]

\* The two worker counts, whose inputs hold a number or ''.
WorkerCounts == {"max_description_workers", "max_image_workers"}

\* Is the value v of the input of field f falsy ('' or, for a count, 0)?
Falsy(f, v) == v = "" \/ (f \in WorkerCounts /\ v = "0")

\* The load effect: fetchSettings() after the first render.
Settings_load(p) ==
    /\ page.route = "/settings"
    /\ ~page.loaded
    /\ store.isAuthenticated
    /\ fetchSettings(p)
    /\ page' = [page EXCEPT !.loaded = TRUE]

\* onChange of an input.
setInput(f, v) ==
    /\ page.route = "/settings"
    /\ page.form[f] # v
    /\ page' = [page EXCEPT !.form[f] = v]
    /\ UNCHANGED <<store, calls, accounts, ev, overlap, server>>

\* The populate effect: the inputs of the plain fields are set from settings,
\* the two secret inputs are left alone.
Populated(form, s) ==
    [f \in Fields |->
        IF f \in PlainFields
        THEN (IF s[f] = Null \/ Falsy(f, s[f][1]) THEN "" ELSE s[f][1])
        ELSE form[f]]

\* The populate effect after a turn that stored new settings.
Settings_populate == page' = [page EXCEPT !.form = Populated(@, store'.settings[1])]

\* A slip: every input is sent, the empty ones too.
RequestOf_whole(form) == form

\* The request of handleSave: value || undefined for every input (for a count
\* value ? Number(value) : undefined).
RequestOf(form) == [f \in {g \in Fields : ~Falsy(g, form[g])} |-> form[f]]

\* handleSave(): up to the await of updateSettings.  The button is disabled
\* while isSaving.
handleSave(p) ==
    /\ page.route = "/settings"
    /\ ~page.isSaving
    /\ updateSettings(p, RequestOf(page.form))
    /\ page' = [page EXCEPT !.isSaving = TRUE, !.message = Null, !.saving = Some(p)]

\* A slip: the secret inputs are not cleared after saving.
handleSave_try_keeping(p) ==
    page' = [page EXCEPT
                !.message = Some([type |-> "success", text |-> "saved"]),
                !.form = Populated(@, store'.settings[1]),
                !.isSaving = FALSE, !.saving = Null]

\* The rest of handleSave after updateSettings resolved (try, finally), and
\* the populate effect for the settings the store now holds.
handleSave_try(p) ==
    page' = [page EXCEPT
                !.message = Some([type |-> "success", text |-> "saved"]),
                !.form = Populated([@ EXCEPT !["google_api_key"] = "",
                                             !["mineru_token"] = ""],
                                   store'.settings[1]),
                !.isSaving = FALSE, !.saving = Null]

\* The rest of handleSave after updateSettings rejected (catch, finally).
handleSave_catch(p) ==
    page' = [page EXCEPT
                !.message = Some([type |-> "error", text |-> "request failed"]),
                !.isSaving = FALSE, !.saving = Null]

\* The reset buttons the page shows for the settings the store holds.
ResetButtons ==
    IF store.settings = Null THEN {}
    ELSE {k \in {"google_api_key", "google_api_base", "mineru_token"} :
            Overridden(store.settings[1], k)}

\* handleResetSetting(key): up to the await of resetSetting.
handleResetSetting(p, key) ==
    /\ page.route = "/settings"
    /\ key \in ResetButtons
    /\ resetSetting(p, key)
    /\ UNCHANGED page

\* The rest of handleResetSetting after resetSetting resolved, and the
\* populate effect for the settings the store now holds.
handleResetSetting_try(p) ==
    page' = [page EXCEPT
                !.message = Some([type |-> "success", text |-> "reset"]),
                !.form = Populated(@, store'.settings[1])]

\* The rest of handleResetSetting after resetSetting rejected.
handleResetSetting_catch(p) ==
    page' = [page EXCEPT
                !.message = Some([type |-> "error", text |-> "request failed"])]

SaveInit ==
    /\ store = SignedIn("alice")
    /\ calls = [p \in Procs |-> Idle]
    /\ accounts = {"alice"}
    /\ ev = NoEvent
    /\ overlap = FALSE
    /\ page = SettingsPage
    /\ \E o \in StartOverrides : server = Serving(o)

\* The Settings page is open: its settings are loaded, the user types and
\* saves, the remote authority answers or the request fails.
SaveNext ==
    \/ \E p \in Procs : Settings_load(p) /\ UNCHANGED server
    \/ \E f \in DOMAIN Typed : \E v \in Typed[f] : setInput(f, v)
    \/ \E p \in Procs : handleSave(p) /\ UNCHANGED server
    \/ \E p \in Procs : Serve(p)
    \/ \E p \in Procs : /\ Answered(p)
                          /\ fetchSettings_resolved(p, server.responses[p][1])
                          /\ Settings_populate
    \/ \E p \in Procs : Undelivered(p) /\ fetchSettings_rejected(p)
    \/ \E p \in Procs : /\ Answered(p)
                          /\ updateSettings_resolved(p, server.responses[p][1])
                          /\ handleSave_try(p)
    \/ \E p \in Procs, e \in ServerErrors :
            Dropped(p) /\ updateSettings_rejected(p, e) /\ handleSave_catch(p)

SaveSpec == SaveInit /\ [][SaveNext]_vars

\* The Settings page once its settings are loaded and the form is populated.
RequestInit ==
    /\ calls = [p \in Procs |-> Idle]
    /\ accounts = {"alice"}
    /\ ev = NoEvent
    /\ overlap = FALSE
    /\ \E o \in StartOverrides :
          /\ server = Serving(o)
          /\ store = set(SignedIn("alice"),
                         [settings |-> Some(SettingsView(o)),
                          effectiveConfig |-> Some(Resolve(o))])
          /\ page = [SettingsPage EXCEPT !.loaded = TRUE,
                                         !.form = Populated(@, SettingsView(o))]

\* The Settings page with its reset buttons: the user edits the key and a
\* worker count, saves, and resets overrides.
RequestNext ==
    \/ \E f \in DOMAIN TypedCounts : \E v \in TypedCounts[f] : setInput(f, v)
    \/ \E p \in Procs : handleSave(p) /\ UNCHANGED server
    \/ \E p \in Procs, key \in Fields : handleResetSetting(p, key) /\ UNCHANGED server
    \/ \E p \in Procs : Serve(p)
    \/ \E p \in Procs : /\ Answered(p)
                          /\ updateSettings_resolved(p, server.responses[p][1])
                          /\ handleSave_try(p)
    \/ \E p \in Procs : /\ Answered(p)
                          /\ resetSetting_resolved(p, server.responses[p][1])
                          /\ handleResetSetting_try(p)
    \/ \E p \in Procs, e \in ServerErrors :
            Dropped(p) /\ resetSetting_rejected(p, e) /\ handleResetSetting_catch(p)

RequestSpec == RequestInit /\ [][RequestNext]_vars

----------------------------------------------------------------------------
\* The Register and ForgotPassword pages.  What is typed is a sequence of
\* characters.
Chars(n, c) == [i \in 1..n |-> c]

MinUsername == 3
MinPassword == 6
CodeLength == 6
MinNewPassword == 6
ResendSeconds == 60
\* The largest wait_seconds of a rate-limit error.
MaxWait == 2

Usernames == {<< >>, Chars(MinUsername - 1, "u"), Chars(MinUsername, "u")}
Emails == {<< >>, <<"a">>, <<"a", "@", "b">>}
Passwords == {<< >>, Chars(MinPassword - 1, "1"), Chars(MinPassword, "1")}
Confirmations == Passwords \cup {Chars(MinPassword, "2")}
Codes == {<< >>, Chars(CodeLength - 1, "0"), Chars(CodeLength, "0")}

\* email.includes('@')
includes(str, c) == \E i \in DOMAIN str : str[i] = c

\* A handler of a page ran and called nothing of the store.
PageOnly == UNCHANGED <<calls, accounts, ev, overlap, server>>

\* The Register page: its state after the first render.
Register ==
    [route |-> "/register", username |-> << >>, email |-> << >>,
     password |-> << >>, confirmPassword |-> << >>, localError |-> ""]

RegisterInputs ==
    [username |-> Usernames, email |-> Emails, password |-> Passwords,
     confirmPassword |-> Confirmations]

\* onChange of an input of the Register page.
Register_input(f, v) ==
    /\ page.route = "/register"
    /\ page[f] # v
    /\ page' = [page EXCEPT ![f] = v]
    /\ PageOnly /\ UNCHANGED store

\* The message of the first validation of handleSubmit that fails, "" if none.
RegisterInvalid(form) ==
    IF form.username = << >> \/ form.email = << >> \/ form.password = << >>
    THEN "please fill in all required fields"
    ELSE IF Len(form.username) < MinUsername THEN "username too short"
    ELSE IF Len(form.password) < MinPassword THEN "password too short"
    ELSE IF form.password # form.confirmPassword THEN "passwords differ"
    ELSE ""

\* clearError()
clearError == set(store, [error |-> Null])

\* The body register(username, email, password) hands to authApi.register,
\* which posts it as it is.
register_request(username, email, password) ==
    [username |-> username, email |-> email, password |-> password]

\* The fields of a RegisterRequest.
RegisterRequest == {"username", "email", "password", "verification_code"}

\* handleSubmit(): up to a failed validation or the await of register.  The
\* submit button is disabled while isLoading.
handleSubmit(p) ==
    /\ page.route = "/register"
    /\ ~store.isLoading
    /\ IF RegisterInvalid(page) # ""
       THEN /\ page' = [page EXCEPT !.localError = RegisterInvalid(page)]
            /\ store' = clearError
            /\ p = 1
            /\ PageOnly
       ELSE /\ page' = [page EXCEPT !.localError = ""]
            /\ register(p, "alice")
            /\ UNCHANGED server

\* The rest of handleSubmit after register resolved: navigate('/').
handleSubmit_try(p) == page' = [route |-> "/"]

\* The rest of handleSubmit after register rejected: the catch branch.
handleSubmit_catch(p) == page' = [page EXCEPT !.localError = store'.error[1]]

\* The ForgotPassword page: its state after the first render.  pending holds
\* the authApi requests under way; waited holds the wait_seconds of the last
\* rate-limit error and the ticks of the countdown timer since.
ForgotPassword ==
    [route |-> "/forgot-password", step |-> "email", email |-> << >>,
     verificationCode |-> << >>, newPassword |-> << >>, confirmPassword |-> << >>,
     error |-> "", successMessage |-> "", isLoading |-> FALSE,
     isSendingCode |-> FALSE, countdown |-> 0, pending |-> {}, waited |-> Null]

\* The inputs each step of the page shows.
ForgotInputs ==
    [email |-> [email |-> Emails],
     verify |-> [verificationCode |-> Codes],
     reset |-> [newPassword |-> Passwords, confirmPassword |-> Confirmations],
     success |-> << >>]

\* onChange of an input of the ForgotPassword page.
Forgot_input(f, v) ==
    /\ page.route = "/forgot-password"
    /\ f \in DOMAIN ForgotInputs[page.step]
    /\ v \in ForgotInputs[page.step][f]
    /\ page[f] # v
    /\ page' = [page EXCEPT ![f] = v]
    /\ PageOnly /\ UNCHANGED store

\* The send button (step email) and the resend button (step verify) are
\* disabled.
SendDisabled ==
    \/ page.isSendingCode
    \/ page.countdown > 0
    \/ page.step = "email" /\ page.email = << >>

\* The countdown effect's timer fires.
tick ==
    /\ page.route = "/forgot-password"
    /\ page.countdown > 0
    /\ page' = [page EXCEPT
                   !.countdown = @ - 1,
                   !.waited = IF @ = Null THEN Null
                              ELSE Some([@[1] EXCEPT !.ticks = @ + 1])]
    /\ PageOnly /\ UNCHANGED store

\* handleSendCode(): up to a failed validation or the await of
\* authApi.sendVerificationCode.
handleSendCode ==
    /\ page.route = "/forgot-password"
    /\ page.step \in {"email", "verify"}
    /\ ~SendDisabled
    /\ page' = IF page.email = << >> \/ ~includes(page.email, "@")
               THEN [page EXCEPT !.error = "invalid email", !.successMessage = ""]
               ELSE [page EXCEPT !.error = "", !.successMessage = "",
                                 !.isSendingCode = TRUE,
                                 !.pending = @ \cup {"sendVerificationCode"}]
    /\ PageOnly /\ UNCHANGED store

\* authApi.sendVerificationCode resolved.
sendVerificationCode_resolved ==
    /\ page.route = "/forgot-password"
    /\ "sendVerificationCode" \in page.pending
    /\ page' = [page EXCEPT !.step = "verify", !.countdown = ResendSeconds,
                            !.successMessage = "code sent",
                            !.isSendingCode = FALSE, !.waited = Null,
                            !.pending = @ \ {"sendVerificationCode"}]
    /\ PageOnly /\ UNCHANGED store

\* A slip: a rate-limit error starts the default countdown.
sendVerificationCode_rejected_default(wait_seconds) ==
    /\ page.route = "/forgot-password"
    /\ "sendVerificationCode" \in page.pending
    /\ page' = [page EXCEPT
                   !.error = "send failed",
                   !.countdown = IF wait_seconds # Null THEN ResendSeconds ELSE @,
                   !.waited = IF wait_seconds # Null
                              THEN Some([w |-> wait_seconds[1], ticks |-> 0]) ELSE @,
                   !.isSendingCode = FALSE,
                   !.pending = @ \ {"sendVerificationCode"}]
    /\ PageOnly /\ UNCHANGED store

\* authApi.sendVerificationCode rejected, with or without wait_seconds in the
\* error's data.
sendVerificationCode_rejected(wait_seconds) ==
    /\ page.route = "/forgot-password"
    /\ "sendVerificationCode" \in page.pending
    /\ page' = [page EXCEPT
                   !.error = "send failed",
                   !.countdown = IF wait_seconds # Null THEN wait_seconds[1] ELSE @,
                   !.waited = IF wait_seconds # Null
                              THEN Some([w |-> wait_seconds[1], ticks |-> 0]) ELSE @,
                   !.isSendingCode = FALSE,
                   !.pending = @ \ {"sendVerificationCode"}]
    /\ PageOnly /\ UNCHANGED store

\* handleVerifyCode(): up to a failed validation or the await of
\* authApi.verifyCode.  The button is disabled while isLoading and while the
\* code is not CodeLength long.
handleVerifyCode ==
    /\ page.route = "/forgot-password"
    /\ page.step = "verify"
    /\ ~page.isLoading /\ Len(page.verificationCode) = CodeLength
    /\ page' = IF Len(page.verificationCode) # CodeLength
               THEN [page EXCEPT !.error = "code must have 6 digits",
                                 !.successMessage = ""]
               ELSE [page EXCEPT !.error = "", !.successMessage = "",
                                 !.isLoading = TRUE,
                                 !.pending = @ \cup {"verifyCode"}]
    /\ PageOnly /\ UNCHANGED store

\* authApi.verifyCode resolved, with valid or not.
verifyCode_resolved(valid) ==
    /\ page.route = "/forgot-password"
    /\ "verifyCode" \in page.pending
    /\ page' = [page EXCEPT !.step = IF valid THEN "reset" ELSE @,
                            !.error = IF valid THEN @ ELSE "invalid code",
                            !.isLoading = FALSE,
                            !.pending = @ \ {"verifyCode"}]
    /\ PageOnly /\ UNCHANGED store

\* authApi.verifyCode rejected.
verifyCode_rejected ==
    /\ page.route = "/forgot-password"
    /\ "verifyCode" \in page.pending
    /\ page' = [page EXCEPT !.error = "verification failed", !.isLoading = FALSE,
                            !.pending = @ \ {"verifyCode"}]
    /\ PageOnly /\ UNCHANGED store

\* The message of the first validation of handleResetPassword that fails.
ResetInvalid(form) ==
    IF Len(form.newPassword) < MinNewPassword THEN "password too short"
    ELSE IF form.newPassword # form.confirmPassword THEN "passwords differ"
    ELSE ""

\* A slip: the length of the new password is not validated.
handleResetPassword_unchecked ==
    /\ page.route = "/forgot-password"
    /\ page.step = "reset"
    /\ ~page.isLoading /\ page.newPassword # << >> /\ page.confirmPassword # << >>
    /\ page' = IF page.newPassword # page.confirmPassword
               THEN [page EXCEPT !.error = "passwords differ", !.successMessage = ""]
               ELSE [page EXCEPT !.error = "", !.successMessage = "",
                                 !.isLoading = TRUE,
                                 !.pending = @ \cup {"resetPassword"}]
    /\ PageOnly /\ UNCHANGED store

\* handleResetPassword(): up to a failed validation or the await of
\* authApi.resetPassword.  The button is disabled while isLoading and while
\* one of the two inputs is empty.
handleResetPassword ==
    /\ page.route = "/forgot-password"
    /\ page.step = "reset"
    /\ ~page.isLoading /\ page.newPassword # << >> /\ page.confirmPassword # << >>
    /\ page' = IF ResetInvalid(page) # ""
               THEN [page EXCEPT !.error = ResetInvalid(page), !.successMessage = ""]
               ELSE [page EXCEPT !.error = "", !.successMessage = "",
                                 !.isLoading = TRUE,
                                 !.pending = @ \cup {"resetPassword"}]
    /\ PageOnly /\ UNCHANGED store

\* authApi.resetPassword resolved or rejected.
resetPassword_settled(ok) ==
    /\ page.route = "/forgot-password"
    /\ "resetPassword" \in page.pending
    /\ page' = [page EXCEPT !.step = IF ok THEN "success" ELSE @,
                            !.error = IF ok THEN @ ELSE "reset failed",
                            !.isLoading = FALSE,
                            !.pending = @ \ {"resetPassword"}]
    /\ PageOnly /\ UNCHANGED store

FormsInit ==
    /\ store = InitialState
    /\ calls = [p \in Procs |-> Idle]
    /\ accounts = {"alice"}
    /\ ev = NoEvent
    /\ overlap = FALSE
    /\ server = AnyServer
    /\ page \in {Register, ForgotPassword}

\* The Register page or the ForgotPassword page is open: the user types and
\* presses the buttons, a second passes, responses arrive.
FormsNext ==
    \/ \E f \in DOMAIN RegisterInputs : \E v \in RegisterInputs[f] : Register_input(f, v)
    \/ \E p \in Procs : handleSubmit(p)
    \/ \E p \in Procs : register_resolved(p) /\ handleSubmit_try(p) /\ UNCHANGED server
    \/ \E p \in Procs, e \in ServerErrors :
            register_rejected(p, e) /\ handleSubmit_catch(p) /\ UNCHANGED server
    \/ \E f \in {"email", "verificationCode", "newPassword", "confirmPassword"} :
            \E v \in Emails \cup Codes \cup Passwords \cup Confirmations : Forgot_input(f, v)
    \/ tick
    \/ handleSendCode
    \/ sendVerificationCode_resolved
    \/ \E w \in {Null} \cup {Some(n) : n \in 1..MaxWait} : sendVerificationCode_rejected(w)
    \/ handleVerifyCode
    \/ \E valid \in BOOLEAN : verifyCode_resolved(valid)
    \/ verifyCode_rejected
    \/ handleResetPassword
    \/ \E ok \in BOOLEAN : resetPassword_settled(ok)

FormsSpec == FormsInit /\ [][FormsNext]_vars

----------------------------------------------------------------------------
\* debounce and throttle.  Time is counted in whole units; a timer runs its
\* callback at the instant it is due, before anything else that happens at
\* that instant.

\* The last instant looked at, the longest wait / limit, the most calls made.
MaxTime == 4
MaxDelay == 2
MaxCalls == 3

\* The arguments the returned function is called with.
Args == {"a", "b"}

\* The closure debounce(func, wait) or throttle(func, limit) returns, with the
\* clock: timeout is the timer debounce holds, release the timer throttle set;
\* made is the log of the calls of the returned function, invoked the log of
\* the invocations of func.
Closure(util, delay) ==
    [route |-> "none", util |-> util, delay |-> delay, now |-> 0,
     timeout |-> Null, inThrottle |-> FALSE, release |-> Null,
     made |-> << >>, invoked |-> << >>]

\* Is a timer due at this instant?
TimerDue ==
    \/ page.timeout # Null /\ ~page.timeout[1].fired /\ page.timeout[1].due = page.now
    \/ page.release = Some(page.now)

\* Nothing of the store is touched.
UtilOnly == UNCHANGED <<store, calls, accounts, ev, overlap, server>>

\* A slip: a call made while a timer is pending keeps that timer's arguments.
debounced_firstArgs(a) ==
    /\ page.util = "debounce"
    /\ Len(page.made) < MaxCalls
    /\ ~TimerDue
    /\ page' = [page EXCEPT
                   !.timeout = Some([due |-> page.now + page.delay,
                                     args |-> IF @ # Null /\ ~@[1].fired
                                              THEN @[1].args ELSE a,
                                     fired |-> FALSE]),
                   !.made = Append(@, [at |-> page.now, args |-> a, ran |-> FALSE])]
    /\ UtilOnly

\* The function debounce returns is called with a: the timer it holds is
\* cleared and a new one is set.
debounced(a) ==
    /\ page.util = "debounce"
    /\ Len(page.made) < MaxCalls
    /\ ~TimerDue
    /\ page' = [page EXCEPT
                   !.timeout = Some([due |-> page.now + page.delay, args |-> a,
                                     fired |-> FALSE]),
                   !.made = Append(@, [at |-> page.now, args |-> a, ran |-> FALSE])]
    /\ UtilOnly

\* The timer of debounce runs: func(...args).
debounce_timeout ==
    /\ page.util = "debounce"
    /\ page.timeout # Null /\ ~page.timeout[1].fired /\ page.timeout[1].due = page.now
    /\ page' = [page EXCEPT
                   !.timeout = Some([@[1] EXCEPT !.fired = TRUE]),
                   !.invoked = Append(@, [at |-> page.now, args |-> page.timeout[1].args])]
    /\ UtilOnly

\* A slip: func is invoked without the latch being set.
throttled_unlatched(a) ==
    /\ page.util = "throttle"
    /\ Len(page.made) < MaxCalls
    /\ ~TimerDue
    /\ page' = IF ~page.inThrottle
               THEN [page EXCEPT
                       !.invoked = Append(@, [at |-> page.now, args |-> a]),
                       !.made = Append(@, [at |-> page.now, args |-> a, ran |-> TRUE])]
               ELSE [page EXCEPT
                       !.made = Append(@, [at |-> page.now, args |-> a, ran |-> FALSE])]
    /\ UtilOnly

\* The function throttle returns is called with a: unless inThrottle, func is
\* invoked, inThrottle is set and a timer is set to clear it.
throttled(a) ==
    /\ page.util = "throttle"
    /\ Len(page.made) < MaxCalls
    /\ ~TimerDue
    /\ page' = IF ~page.inThrottle
               THEN [page EXCEPT
                       !.invoked = Append(@, [at |-> page.now, args |-> a]),
                       !.inThrottle = TRUE,
                       !.release = Some(page.now + page.delay),
                       !.made = Append(@, [at |-> page.now, args |-> a, ran |-> TRUE])]
               ELSE [page EXCEPT
                       !.made = Append(@, [at |-> page.now, args |-> a, ran |-> FALSE])]
    /\ UtilOnly

\* The timer of throttle runs: inThrottle = false.
throttle_timeout ==
    /\ page.util = "throttle"
    /\ page.release = Some(page.now)
    /\ page' = [page EXCEPT !.inThrottle = FALSE, !.release = Null]
    /\ UtilOnly

\* A unit of time passes.
advance ==
    /\ page.route = "none" /\ "now" \in DOMAIN page
    /\ page.now < MaxTime
    /\ ~TimerDue
    /\ page' = [page EXCEPT !.now = @ + 1]
    /\ UtilOnly

UtilsInit ==
    /\ store = InitialState
    /\ calls = [p \in Procs |-> Idle]
    /\ accounts = {"alice"}
    /\ ev = NoEvent
    /\ overlap = FALSE
    /\ server = AnyServer
    /\ \E util \in {"debounce", "throttle"}, delay \in 1..MaxDelay :
          page = Closure(util, delay)

UtilsNext ==
    \/ \E a \in Args : debounced(a)
    \/ debounce_timeout
    \/ \E a \in Args : throttled(a)
    \/ throttle_timeout
    \/ advance

UtilsSpec == UtilsInit /\ [][UtilsNext]_vars

----------------------------------------------------------------------------
\* A response arrives for the request the operation of slot p waits for.
Respond(p) ==
    \/ login_resolved(p)
    \/ \E e \in ServerErrors : login_rejected(p, e)
    \/ register_resolved(p)
    \/ \E e \in ServerErrors : register_rejected(p, e)
    \/ \E outcome \in {"ok", "error"} : logout_settled(p, outcome)
    \/ refresh_resolved(p)
    \/ refresh_rejected(p)
    \/ getCurrentUser_resolved(p)
    \/ getCurrentUser_unauthorized(p)
    \/ getCurrentUser_failed(p)
    \/ \E status \in {"401", "error"} : retry_rejected(p, status)
    \/ \E r \in SettingsRecords \cup SettingsResponses : fetchSettings_resolved(p, r)
    \/ fetchSettings_rejected(p)
    \/ \E r \in SettingsResponses : updateSettings_resolved(p, r)
    \/ \E e \in ServerErrors : updateSettings_rejected(p, e)
    \/ \E r \in SettingsResponses : resetSetting_resolved(p, r)
    \/ \E e \in ServerErrors : resetSetting_rejected(p, e)

----------------------------------------------------------------------------
BothTokens == store.accessToken # Null /\ store.refreshToken # Null

SessionCleared ==
    /\ ~store.isAuthenticated
    /\ store.user = Null
    /\ store.accessToken = Null
    /\ store.refreshToken = Null

\* An invocation of fetchCurrentUser, on its own or inside setTokensFromOAuth.
IsFetch(c) == c.op \in {"fetchCurrentUser", "setTokensFromOAuth"}

\* The invocations of fetchCurrentUser whose refresh exchange is pending.
Refreshing == {p \in Procs : IsFetch(calls[p]) /\ calls[p].pc = "refresh_wait"}

\* No login, register or setTokensFromOAuth is in flight.
NoneEstablishing ==
    \A p \in Procs : calls[p].op \notin {"login", "register", "setTokensFromOAuth"}

\* C1: in every reachable state, isAuthenticated = true implies that
\* accessToken is non-null.
C1_AuthenticatedHasAccessToken ==
    store.isAuthenticated => store.accessToken # Null

\* C2: at most one refresh exchange is in flight at any time, however many
\* invocations of fetchCurrentUser got an unauthorized response.
C2_SingleRefreshInFlight == Cardinality(Refreshing) <= 1

\* C3: when fetchCurrentUser ends after an unauthorized response, a successful
\* refresh and an unauthorized retry, isAuthenticated is false and both
\* tokens are null.
C3_SecondUnauthorizedEndsSession ==
    (/\ ev.step = "retry_rejected"
     /\ ev.call.op = "fetchCurrentUser"
     /\ ev.call.first = "401" /\ ev.call.refresh = "ok" /\ ev.call.retry = "401")
    => (~store.isAuthenticated /\ store.accessToken = Null
        /\ store.refreshToken = Null)

\* C4: when a refresh exchange is rejected, the turn that handles the rejection
\* leaves user, accessToken, refreshToken, settings and effectiveConfig null
\* and isAuthenticated false, the operation has cleared the session once, and
\* refreshAccessToken returns false (inside fetchCurrentUser: no retry is sent).
C4_FailedRefreshClearsSession ==
    ev.step = "refresh_rejected" =>
        /\ SessionCleared
        /\ store.settings = Null /\ store.effectiveConfig = Null
        /\ ev.call.nClear = 1
        /\ ev.call.refresh = "failed"
        /\ IF ev.call.op = "refreshAccessToken"
           THEN ev.call.result = "false"
           ELSE ev.call.nGet = 1 /\ ev.call.retry = "none"

\* A refresh exchange was rejected while a session was held by the caller.
C4_Witness ==
    /\ ev.step = "refresh_rejected"
    /\ ev.call.op = "refreshAccessToken"
    /\ ev.call.result = "false"

\* C5: once the session is cleared, and as long as no login, register or
\* setTokensFromOAuth is in flight, it stays cleared.
C5_ClearedStaysCleared ==
    [][(SessionCleared /\ NoneEstablishing /\ NoneEstablishing') => SessionCleared']_vars

\* C6: as long as the operations on the session run one after another,
\* isAuthenticated is true if and only if both tokens are non-null.
C6_AuthenticatedIffBothTokens ==
    ~overlap => (store.isAuthenticated <=> BothTokens)

\* A session was set up and then ended by a failed refresh, one after another.
C6_Witness ==
    /\ ~overlap
    /\ ev.step = "refresh_rejected"
    /\ ~store.isAuthenticated

\* C7: the turn in which a refresh exchange resolves writes accessToken only:
\* refreshToken, user, isAuthenticated, settings and effectiveConfig keep
\* their values.
C7_RefreshReplacesOnlyAccessToken ==
    [][\A p \in Procs :
         refresh_resolved(p) =>
            /\ store'.refreshToken = store.refreshToken
            /\ store'.user = store.user
            /\ store'.isAuthenticated = store.isAuthenticated
            /\ store'.settings = store.settings
            /\ store'.effectiveConfig = store.effectiveConfig
            /\ store'.accessToken # Null]_vars

\* refreshAccessToken returned true on a session whose other fields are set.
C7_Witness ==
    /\ ev.step = "refresh_resolved"
    /\ ev.call.result = "true"
    /\ store.accessToken = Some([acct |-> "alice", by |-> "refresh"])
    /\ store.refreshToken # Null /\ store.user # Null /\ store.settings # Null

\* The requests one invocation has sent.
BoundedRequests(c) ==
    /\ c.nGet <= 2
    /\ c.nRefresh <= 1
    /\ c.nGet = 2 => (c.nRefresh = 1 /\ c.refresh = "ok")

\* The number of responses an invocation may still have to wait for.
Rank(c) ==
    CASE c.pc = "get_wait" -> 3
      [] c.pc = "refresh_wait" -> 2
      [] c.pc = "retry_wait" -> 1
      [] OTHER -> 0

\* C8: one invocation of fetchCurrentUser sends at most two getCurrentUser
\* requests and at most one refresh request, the second getCurrentUser request
\* only after a refresh that succeeded, and it ends: whenever it waits, the
\* arrival of a response is enabled, and every turn it takes brings it closer
\* to its end, which is at most three responses after the call.
C8_BoundedRetries ==
    /\ [](\A p \in Procs : IsFetch(calls[p]) =>
            BoundedRequests(calls[p]) /\ ENABLED Respond(p))
    /\ [](IsFetch(ev.call) => BoundedRequests(ev.call))
    /\ [][\A p \in Procs :
            (IsFetch(calls[p]) /\ calls'[p].pc # calls[p].pc) =>
                /\ Rank(calls'[p]) < Rank(calls[p])
                /\ Rank(calls'[p]) = 0 => ~IsFetch(calls'[p])]_vars

\* An invocation ended after its retry.
C8_Witness ==
    /\ ev.call.op = "fetchCurrentUser"
    /\ ev.call.nGet = 2 /\ ev.call.nRefresh = 1

\* C9: refresh exchanges that are pending at the same time end alike: no
\* invocation of fetchCurrentUser sees an exchange that was pending together
\* with its own end differently from its own.
C9_SameRefreshOutcome ==
    /\ \A p \in Procs :
         IsFetch(calls[p]) =>
            /\ calls[p].pc = "refresh_wait" => Cardinality(calls[p].peerOutcomes) <= 1
            /\ calls[p].pc # "refresh_wait" => calls[p].peerOutcomes = {}
    /\ IsFetch(ev.call) => ev.call.peerOutcomes = {}

\* C10: when fetchCurrentUser ends on an unauthorized response with no refresh
\* token held, no refresh request was sent, isAuthenticated is false and user
\* and accessToken are null.
C10_NoRefreshTokenClearsSession ==
    (/\ ev.step = "getCurrentUser_unauthorized"
     /\ ev.call.op = "fetchCurrentUser"
     /\ ev.call.refresh = "no_token")
    => (/\ ev.call.nRefresh = 0
        /\ ~store.isAuthenticated
        /\ store.user = Null /\ store.accessToken = Null)

\* C11: when logout ends, whether authApi.logout resolved or rejected, user,
\* accessToken, refreshToken, settings and effectiveConfig are null and
\* isAuthenticated is false, and logout has resolved: it never rejects.
C11_LogoutAlwaysClears ==
    ev.step = "logout_settled" =>
        /\ SessionCleared
        /\ store.settings = Null /\ store.effectiveConfig = Null
        /\ ev.call.nClear = 1
        /\ ev.call.result = "resolved"

\* logout ended after its remote request was rejected, while the settings fetch
\* a login, register or OAuth sign-in had started was still pending.
C11_Witness ==
    /\ ev.step = "logout_settled"
    /\ ev.call.first = "error"
    /\ \E p \in Procs : calls[p] = Floating

\* The cached pair is the pair of the one response r.
FromOneResponse(r) ==
    /\ store.settings = Some(r.settings)
    /\ store.effectiveConfig = Some(r.effective_config)

\* A settings operation ended in failure.
SettingsFailures ==
    {"fetchSettings_rejected", "updateSettings_rejected", "resetSetting_rejected"}

\* C12: in every reachable state settings and effectiveConfig are both null or
\* are the settings and the effective_config of one and the same response to
\* getSettings, updateSettings or resetSetting: no state mixes two responses
\* and no effectiveConfig is made up by the client.
C12_SettingsPairFromOneResponse ==
    \/ store.settings = Null /\ store.effectiveConfig = Null
    \/ \E r \in SettingsResponses : FromOneResponse(r)

\* A reset replaced the pair while an update was still waiting for its answer.
C12_Witness ==
    /\ ev.step = "resetSetting_resolved"
    /\ FromOneResponse(SettingsResponse("r2"))
    /\ \E p \in Procs : calls[p].pc = "update_wait"

\* C13: a failing fetchSettings, updateSettings or resetSetting writes neither
\* settings nor effectiveConfig nor user, accessToken, refreshToken or
\* isAuthenticated: not in the turn that sends its request and not in the turn
\* that handles the rejection, so the values are those from before it started.
C13_FailedSettingsOpKeepsState ==
    [][\A p \in Procs :
         (\/ fetchSettings(p) \/ fetchSettings_rejected(p)
          \/ \E data \in SettingsUpdates : updateSettings(p, data)
          \/ \E e \in ServerErrors : updateSettings_rejected(p, e)
          \/ \E key \in SettingKeys : resetSetting(p, key)
          \/ \E e \in ServerErrors : resetSetting_rejected(p, e))
         => /\ store'.settings = store.settings
            /\ store'.effectiveConfig = store.effectiveConfig
            /\ store'.user = store.user
            /\ store'.accessToken = store.accessToken
            /\ store'.refreshToken = store.refreshToken
            /\ store'.isAuthenticated = store.isAuthenticated]_vars

\* A reset failed on a signed-in session that holds cached settings.
C13_Witness ==
    /\ ev.step = "resetSetting_rejected"
    /\ store.isAuthenticated /\ store.user # Null
    /\ store.settings # Null /\ store.effectiveConfig # Null

\* C14: whenever fetchSettings, updateSettings or resetSetting has failed, the
\* failure has been surfaced: the operation rejected with a message or the
\* store's error field holds one.
C14_SettingsFailureSurfaces ==
    ev.step \in SettingsFailures =>
        (ev.call.result = "rejected" \/ store.error # Null)

\* C15: whenever login, register or setTokensFromOAuth has just started its
\* fetchSettings(), isAuthenticated is true and accessToken is non-null, also
\* after a fetchCurrentUser that failed and cleared the session.
C15_SettingsFetchedOnlyWhenAuthenticated ==
    (/\ ev.call.op \in {"login", "register", "setTokensFromOAuth"}
     /\ ev.call.result = "resolved")
    => (store.isAuthenticated /\ store.accessToken # Null)

\* The session states of the spec, read off the store.
Anonymous == ~store.isAuthenticated /\ ~store.isLoading
Authenticating == ~store.isAuthenticated /\ store.isLoading
Authenticated == store.isAuthenticated

\* C18: the session is never partially authenticated (isAuthenticated true
\* goes with a user and both tokens, isAuthenticated false with none of them)
\* and no turn takes it from Anonymous to Authenticated: the way there leads
\* through Authenticating.
C18_SessionStateMachine ==
    /\ [](Authenticated => (store.user # Null /\ BothTokens))
    /\ [](~Authenticated => SessionCleared)
    /\ [][Anonymous => ~Authenticated']_vars

\* C19: the turn in which login or register resolves stores isAuthenticated =
\* true, the returned user and both returned tokens, and starts fetchSettings();
\* the turn in which that fetch resolves leaves settings and effectiveConfig
\* non-null.
C19_LoginEstablishesSessionAndFetchesSettings ==
    /\ [][\A p \in Procs :
            (login_resolved(p) \/ register_resolved(p)) =>
                LET response == AuthResponse(calls[p].arg[1])
                IN /\ store'.isAuthenticated
                   /\ store'.user = Some(response.user)
                   /\ store'.accessToken = Some(response.access_token)
                   /\ store'.refreshToken = Some(response.refresh_token)
                   /\ calls'[p] = Floating]_vars
    /\ [][\A p \in Procs :
            (\E r \in SettingsRecords : fetchSettings_resolved(p, r)) =>
                (store'.settings # Null /\ store'.effectiveConfig # Null)]_vars

\* A login, on its own, led to a signed-in session with its settings fetched.
C19_Witness ==
    /\ ~overlap
    /\ ev.step = "fetchSettings_resolved"
    /\ store.isAuthenticated /\ store.user = Some("alice") /\ BothTokens
    /\ store.settings # Null /\ store.effectiveConfig # Null

\* The fetchCurrentUser of the process start has ended without a profile.
BootFailed ==
    /\ ev.call.op = "fetchCurrentUser"
    /\ ev.step \in {"getCurrentUser_failed", "getCurrentUser_unauthorized",
                    "refresh_rejected", "retry_rejected"}

\* The fetchCurrentUser of the process start has ended with the profile.
BootSucceeded ==
    /\ ev.call.op = "fetchCurrentUser"
    /\ ev.step = "getCurrentUser_resolved"

\* C16: when the fetchCurrentUser of a process start on a persisted
\* authenticated session has failed (at its first request, at the refresh or
\* at the retry), isAuthenticated is false and user and both tokens are null.
C16_FailedBootstrapClearsSession ==
    BootFailed => SessionCleared

\* C17: once the fetchCurrentUser of a process start has succeeded, a settings
\* fetch is eventually issued (one is in flight, or the Settings page has
\* issued one), with no action of the user.
C17_BootstrapFetchesSettings ==
    BootSucceeded ~> (\/ \E p \in Procs : calls[p].op = "fetchSettings"
                      \/ page.loadedFor = Some(TRUE))

\* C20: when the OAuth callback route is opened with an error parameter,
\* whether or not access_token and refresh_token come with it,
\* handleCallback leaves the store as it is, calls no store operation and
\* shows the value of the error parameter.
C20_CallbackErrorShown ==
    [][\A p \in Procs :
         (handleCallback(p) /\ ErrorParam # Null /\ ErrorParam[1] # << >>) =>
            /\ store' = store
            /\ calls' = calls
            /\ page'.error = ErrorParam]_vars

\* C21: in every state where effectiveConfig is non-null, each field's source
\* is "user" exactly when settings says the field is overridden (a plain field
\* non-null, has_google_api_key / has_mineru_token true) and "system" otherwise.
C21_SourceFollowsOverride ==
    store.effectiveConfig # Null =>
        /\ store.settings # Null
        /\ \A f \in Fields :
              store.effectiveConfig[1][f].source =
                  IF Overridden(store.settings[1], f) THEN "user" ELSE "system"

\* The store holds a configuration with fields of both sources, after a reset.
C21_Witness ==
    /\ ev.step = "resetSetting_resolved"
    /\ store.effectiveConfig # Null
    /\ store.effectiveConfig[1]["google_api_key"].source = "system"
    /\ store.effectiveConfig[1]["max_image_workers"].source = "user"

\* C22: after a successful updateSettings every field its request did not name
\* has the effectiveConfig entry in the store that it had on the server before
\* the update was carried out.
C22_UpdateKeepsOmittedFields ==
    [][\A p \in Procs :
         (Delivered(p) /\ updateSettings_resolved(p, server.responses[p][1])) =>
            /\ store'.effectiveConfig # Null
            /\ \A f \in Fields \ server.responses[p][1].named :
                  store'.effectiveConfig[1][f] = server.responses[p][1].before[f]]_vars

\* An update of one field arrived at a user with other fields overridden.
C22_Witness ==
    /\ ev.step = "updateSettings_resolved"
    /\ store.effectiveConfig # Null
    /\ store.effectiveConfig[1]["image_caption_model"] = [value |-> "m1", source |-> "user"]
    /\ store.effectiveConfig[1]["google_api_key"] = [is_set |-> TRUE, source |-> "user"]
    /\ store.effectiveConfig[1]["max_image_workers"] = [value |-> "4", source |-> "user"]

\* C23: after a successful resetSetting("google_api_key") on a user whose key
\* was set, effectiveConfig.google_api_key is {is_set: false, source: "system"},
\* settings.has_google_api_key is false and every other field's entry is as it
\* was on the server before the reset.
C23_ResetRevertsToSystem ==
    [][\A p \in Procs :
         (/\ Delivered(p) /\ resetSetting_resolved(p, server.responses[p][1])
          /\ calls[p].arg = Some("google_api_key")
          /\ server.responses[p][1].before["google_api_key"].source = "user") =>
            /\ store'.effectiveConfig # Null /\ store'.settings # Null
            /\ store'.effectiveConfig[1]["google_api_key"] =
                   [is_set |-> FALSE, source |-> "system"]
            /\ store'.settings[1].has_google_api_key = FALSE
            /\ \A f \in Fields \ {"google_api_key"} :
                  store'.effectiveConfig[1][f] = server.responses[p][1].before[f]]_vars

\* The key of a user who had it set was reset; another override is still there.
C23_Witness ==
    /\ ev.step = "resetSetting_resolved"
    /\ store.settings # Null /\ store.effectiveConfig # Null
    /\ ~store.settings[1].has_google_api_key
    /\ server.overrides["google_api_key"] = Null
    /\ store.effectiveConfig[1]["image_caption_model"].source = "user"

\* The store and what is persisted of it hold no plaintext of a secret: of a
\* secret only the is-set booleans.
NoPlaintext ==
    /\ store.settings # Null =>
          /\ DOMAIN store.settings[1] = DOMAIN SettingsView(NoOverrides)
          /\ \A f \in PlainFields, k \in SecretValues : store.settings[1][f] # Some(k)
    /\ store.effectiveConfig # Null =>
          \A f \in Fields :
             IF f \in Secrets
             THEN DOMAIN store.effectiveConfig[1][f] = {"is_set", "source"}
             ELSE store.effectiveConfig[1][f].value \notin SecretValues
    /\ DOMAIN partialize(store) =
          {"accessToken", "refreshToken", "user", "isAuthenticated"}

\* C24: the store and the persisted fields never hold the plaintext of a
\* secret, and a run that differs only in the values of the secrets sent goes
\* through the same store states: whenever an answer is stored, settings and
\* effectiveConfig are what the answer of that other run gives.
C24_SecretsNeverStored ==
    /\ []NoPlaintext
    /\ [][\A p \in Procs :
            (/\ Delivered(p)
             /\ \/ fetchSettings_resolved(p, server.responses[p][1])
                \/ updateSettings_resolved(p, server.responses[p][1])
                \/ resetSetting_resolved(p, server.responses[p][1])) =>
                /\ store'.settings = Some(server.responses[p][1].other.settings)
                /\ store'.effectiveConfig =
                       Some(server.responses[p][1].other.effective_config)]_vars

\* An update that sent a secret was stored.
C24_Witness ==
    /\ ev.step = "updateSettings_resolved"
    /\ store.settings # Null
    /\ store.settings[1].has_google_api_key
    /\ server.overrides["google_api_key"] = Some("k1")

\* C30: once the responses of racing settings mutations have all been
\* processed, settings and effectiveConfig are those of the server's current
\* overrides, whatever the order in which the responses arrived.
C30_LastWriteReachesStore ==
    (/\ ev.step \in {"updateSettings_resolved", "resetSetting_resolved"}
     /\ \A p \in Procs : ~Busy(p))
    => (/\ store.settings = Some(SettingsView(server.overrides))
        /\ store.effectiveConfig = Some(Resolve(server.overrides)))

\* C25: after a successful save on the Settings page the two secret inputs
\* are empty, after a failed save they hold what they held before, and
\* isSaving is false again in both cases.
C25_SaveClearsSecretInputs ==
    [][\A p \in Procs :
         /\ (/\ Answered(p)
              /\ updateSettings_resolved(p, server.responses[p][1])
              /\ handleSave_try(p)) =>
                /\ page'.form["google_api_key"] = ""
                /\ page'.form["mineru_token"] = ""
                /\ ~page'.isSaving
         /\ (\E e \in ServerErrors :
                Dropped(p) /\ updateSettings_rejected(p, e) /\ handleSave_catch(p)) =>
                /\ \A f \in Secrets : page'.form[f] = page.form[f]
                /\ ~page'.isSaving]_vars

\* A save that sent a typed key succeeded: the key is on the server, the
\* input is empty.
C25_Witness ==
    /\ page.route = "/settings"
    /\ ev.step = "updateSettings_resolved"
    /\ page.message = Some([type |-> "success", text |-> "saved"])
    /\ server.overrides["google_api_key"] = Some("k2")
    /\ page.form["google_api_key"] = ""
    /\ ~page.isSaving

\* C26: a sendVerificationCode that fails with wait_seconds = w > 0 sets the
\* countdown to w, a successful one sets it to ResendSeconds; the countdown
\* goes down by one per tick and never below 0, and until w ticks have passed
\* since the failure the send / resend button is disabled.
C26_CountdownFollowsWaitSeconds ==
    /\ [](page.route = "/forgot-password" =>
            /\ page.countdown >= 0
            /\ page.waited # Null =>
                  /\ page.countdown = page.waited[1].w - page.waited[1].ticks
                  /\ page.waited[1].ticks < page.waited[1].w => SendDisabled)
    /\ [][/\ \A w \in 1..MaxWait :
                 sendVerificationCode_rejected(Some(w)) => page'.countdown = w
          /\ sendVerificationCode_resolved => page'.countdown = ResendSeconds
          /\ tick => page'.countdown = page.countdown - 1]_vars

\* MaxWait ticks after a rate-limit error with wait_seconds = MaxWait the
\* button is enabled again.
C26_Witness ==
    /\ page.route = "/forgot-password"
    /\ page.waited = Some([w |-> MaxWait, ticks |-> MaxWait])
    /\ page.countdown = 0
    /\ ~SendDisabled

\* C27: input that fails the local validation never starts a request, and the
\* handler that ran on it sets a local error message.  Register: an empty
\* required field, a username shorter than 3, a password shorter than 6,
\* passwords that differ; ForgotPassword: an email without '@', a code that is
\* not 6 characters, a new password shorter than 6, passwords that differ.
C27_InvalidInputStaysLocal ==
    [][/\ (/\ page.route = "/register"
            /\ \E p \in Procs : calls'[p].op = "register" /\ calls[p].op # "register") =>
               /\ page.username # << >> /\ page.email # << >> /\ page.password # << >>
               /\ Len(page.username) >= 3 /\ Len(page.password) >= 6
               /\ page.password = page.confirmPassword
       /\ (/\ page.route = "/register"
            /\ \E p \in Procs : handleSubmit(p)
            /\ \/ page.username = << >> \/ page.email = << >> \/ page.password = << >>
               \/ Len(page.username) < 3 \/ Len(page.password) < 6
               \/ page.password # page.confirmPassword) =>
               /\ calls' = calls
               /\ page'.localError # ""
       /\ page.route = "/forgot-password" =>
             /\ "sendVerificationCode" \in page'.pending \ page.pending =>
                   includes(page.email, "@")
             /\ "verifyCode" \in page'.pending \ page.pending =>
                   Len(page.verificationCode) = 6
             /\ "resetPassword" \in page'.pending \ page.pending =>
                   /\ Len(page.newPassword) >= 6
                   /\ page.newPassword = page.confirmPassword
             /\ (handleSendCode /\ ~includes(page.email, "@")) =>
                   page'.pending = page.pending /\ page'.error # ""
             /\ (handleVerifyCode /\ Len(page.verificationCode) # 6) =>
                   page'.pending = page.pending /\ page'.error # ""
             /\ (/\ handleResetPassword
                 /\ \/ Len(page.newPassword) < 6
                    \/ page.newPassword # page.confirmPassword) =>
                   page'.pending = page.pending /\ page'.error # ""]_vars

\* A new password and a confirmation that differ were submitted: the error
\* is shown and no request is under way.
C27_Witness ==
    /\ page.route = "/forgot-password"
    /\ page.step = "reset"
    /\ page.error = "passwords differ"
    /\ Len(page.newPassword) >= 6
    /\ page.pending = {}

\* C28: a restart keeps accessToken, refreshToken, user and isAuthenticated as
\* they were persisted, comes up with settings and effectiveConfig null and
\* isLoading and error at their initial values; what is persisted has these
\* four fields and no other (no password among them).
C28_RestartKeepsSessionOnly ==
    /\ [](DOMAIN partialize(store) =
             {"accessToken", "refreshToken", "user", "isAuthenticated"})
    /\ [][restart =>
            /\ \A f \in {"accessToken", "refreshToken", "user", "isAuthenticated"} :
                  store'[f] = store[f]
            /\ store'.settings = Null /\ store'.effectiveConfig = Null
            /\ store'.isLoading = FALSE /\ store'.error = Null]_vars

\* A signed-in session came through a restart.
C28_Witness ==
    /\ ev.step = "restart"
    /\ store.isAuthenticated
    /\ store.user # Null /\ store.accessToken # Null /\ store.refreshToken # Null
    /\ store.settings = Null

\* C29: a handled OAuth callback ends with new authoritative state or with an
\* explicit error: when the callback page has navigated to "/", the store
\* holds the signed-in user, or an error is recorded.
C29_CallbackFailureNotSilent ==
    page.route = "/" =>
        \/ store.isAuthenticated /\ store.user # Null
        \/ store.error # Null

\* C31: a failed login or register changes nothing but error and isLoading:
\* user, accessToken, refreshToken, isAuthenticated, settings and
\* effectiveConfig keep their values, no request (no retry, no settings fetch)
\* is started, error is the server's message or the default, isLoading is
\* false and the operation rejects.
C31_FailedEntryChangesOnlyError ==
    [][\A p \in Procs, e \in ServerErrors :
         /\ login_rejected(p, e) =>
               store'.error = Some(IF e # Null THEN e[1] ELSE "Login failed")
         /\ register_rejected(p, e) =>
               store'.error = Some(IF e # Null THEN e[1] ELSE "Registration failed")
         /\ (login_rejected(p, e) \/ register_rejected(p, e)) =>
               /\ \A f \in {"user", "accessToken", "refreshToken", "isAuthenticated",
                              "settings", "effectiveConfig"} : store'[f] = store[f]
               /\ ~store'.isLoading
               /\ ~Busy(p)'
               /\ \A q \in Procs \ {p} : calls'[q] = calls[q]
               /\ ev'.call.result = "rejected"]_vars

\* A login failed while a session with settings was there: the session stays.
C31_Witness ==
    /\ ev.step = "login_rejected"
    /\ store.error = Some("Login failed")
    /\ store.isAuthenticated /\ store.user # Null /\ store.accessToken # Null
    /\ store.settings # Null

\* C33: in every state with no login, register or fetchCurrentUser in flight
\* isLoading is false, and fetchCurrentUser called with accessToken null sends
\* no request and changes no state.
C33_LoadingEnds ==
    /\ []((\A p \in Procs :
             calls[p].op \notin {"login", "register", "fetchCurrentUser"}) =>
          ~store.isLoading)
    /\ [][\A p \in Procs :
            (fetchCurrentUser(p) /\ store.accessToken = Null) =>
                store' = store /\ ~Busy(p)' /\ ev'.call.nGet = 0]_vars

\* A fetchCurrentUser whose request failed with another error has ended.
C33_Witness ==
    /\ ev.step = "getCurrentUser_failed"
    /\ \A p \in Procs : calls[p].op \notin {"login", "register", "fetchCurrentUser"}
    /\ ~store.isLoading

\* C32: in every reachable state isAuthenticated = true implies that user is
\* non-null, and a non-null user is the profile of the account the stored
\* accessToken belongs to.
C32_AuthenticatedUserOwnsToken ==
    /\ store.isAuthenticated => store.user # Null
    /\ (store.user # Null /\ store.accessToken # Null) =>
          store.user[1] = store.accessToken[1].acct

\* The place of a step in the password-reset flow.
StepRank(step) ==
    CASE step = "email" -> 1 [] step = "verify" -> 2
      [] step = "reset" -> 3 [] step = "success" -> 4

\* C34: the password-reset flow only moves forward, one step at a time:
\* 'verify' is entered only by a successful sendVerificationCode, 'reset' only
\* by a verifyCode that returned valid, 'success' only by a successful
\* resetPassword; a failed or invalid response leaves the step unchanged and
\* sets an error; no step is skipped or revisited.
C34_ResetFlowMovesForward ==
    [][page.route = "/forgot-password" =>
         /\ page'.step # page.step =>
               /\ StepRank(page'.step) = StepRank(page.step) + 1
               /\ page'.step = "verify" => sendVerificationCode_resolved
               /\ page'.step = "reset" => verifyCode_resolved(TRUE)
               /\ page'.step = "success" => resetPassword_settled(TRUE)
         /\ (\/ \E w \in {Null} \cup {Some(n) : n \in 1..MaxWait} :
                   sendVerificationCode_rejected(w)
             \/ verifyCode_resolved(FALSE)
             \/ verifyCode_rejected
             \/ resetPassword_settled(FALSE)) =>
               page'.step = page.step /\ page'.error # ""]_vars

C36_CallbackNeedsBothTokens ==
    [][/\ \A p \in Procs :
            handleCallback(p) =>
               /\ (/\ page.search.error = Null
                    /\ \/ page.search.access_token = Null
                       \/ page.search.refresh_token = Null) =>
                     /\ store' = store /\ calls' = calls
                     /\ page'.error = Some("invalid callback parameters")
               /\ calls'[p].op = "setTokensFromOAuth" =>
                     /\ page.search.access_token # Null
                     /\ page.search.refresh_token # Null
       /\ (page.route = "/auth/callback" /\ page'.route = "/") =>
             \E p \in Procs :
                /\ calls[p].op = "setTokensFromOAuth"
                /\ calls'[p].op # "setTokensFromOAuth"
                /\ ev'.call.op = "setTokensFromOAuth" /\ ev'.call.result = "resolved"]_vars

\* The callback came with an access token and no refresh token: the error is
\* shown, the store is as it was created.
C36_Witness ==
    /\ page.route = "/auth/callback"
    /\ page.handled
    /\ page.search.error = Null
    /\ page.search.access_token # Null /\ page.search.refresh_token = Null
    /\ page.error = Some("invalid callback parameters")
    /\ store = InitialState

\* C37: AuthGuard renders its children iff requireAuth is false or the session
\* is authenticated, and the Settings page, whenever isAuthenticated is false
\* or user is null, renders nothing and navigates to /login: once its effects
\* have run and every request has ended, a page still on /settings renders.
C37_ProtectedContentGuarded ==
    /\ \A requireAuth \in BOOLEAN :
          (AuthGuard(requireAuth) = "children") <=> (~requireAuth \/ store.isAuthenticated)
    /\ (/\ page.route = "/settings"
        /\ page.restored
        /\ page.loadedFor = Some(store.isAuthenticated)
        /\ \A p \in Procs : ~Busy(p))
       => Settings_renders

\* Does the i-th call end a burst: no later call comes less than the delay
\* after it?
EndsBurst(i) ==
    i = Len(page.made) \/ page.made[i + 1].at - page.made[i].at >= page.delay

\* The number of bursts ended by the first i calls.
BurstsUpTo(i) == Cardinality({j \in 1..i : EndsBurst(j)})

\* C38: debounce: func is invoked exactly once for every burst of calls, wait
\* after the last call of the burst and with that call's arguments, and never
\* by the call of the debounced function itself.
C38_DebounceInvokesOncePerBurst ==
    /\ [](page.util = "debounce" =>
            /\ Len(page.invoked) <= BurstsUpTo(Len(page.made))
            /\ \A i \in DOMAIN page.made :
                  EndsBurst(i) =>
                     LET k == BurstsUpTo(i)
                     IN /\ k <= Len(page.invoked) =>
                             page.invoked[k] = [at |-> page.made[i].at + page.delay,
                                                args |-> page.made[i].args]
                        /\ page.made[i].at + page.delay < page.now =>
                             k <= Len(page.invoked))
    /\ [][\A a \in Args : debounced(a) => page'.invoked = page.invoked]_vars

\* Two bursts were made, the first of two calls with different arguments:
\* func ran twice, the first time with the second call's arguments.
C38_Witness ==
    /\ page.util = "debounce"
    /\ Len(page.made) = 3 /\ Len(page.invoked) = 2
    /\ ~EndsBurst(1) /\ EndsBurst(2)
    /\ page.made[1].args # page.made[2].args
    /\ page.invoked[1].args = page.made[2].args

C40_RegisterRequestCarriesCode ==
    [][\A p \in Procs :
          (handleSubmit(p) /\ RegisterInvalid(page) = "") =>
             RegisterRequest \subseteq
                DOMAIN register_request(page.username, page.email, page.password)]_vars

====
